---------------------------- MODULE Spec2Model ----------------------------
(***************************************************************************)
(* A model of bevy_light_field's live capture manager (src/src/stream.rs): *)
(* the bitstream reframer convert_h264, the per-camera run loop with its   *)
(* latest-frame slot and recording channel, the consumer poll apply_decode *)
(* and the stream registry RtspStreamManager.                              *)
(***************************************************************************)
EXTENDS Integers, Sequences, FiniteSets, TLC

(***************************************************************************)
(* Bounds of the model.                                                    *)
(***************************************************************************)
\* longest byte buffer handed to convert_h264
MaxLen == 9

\* the byte values buffers are drawn from: 0 and 1 (the start code's bytes and
\* the small lengths), and 127 (a payload byte that is neither, and a length
\* byte that makes a unit far longer than any buffer)
ByteVals == {0, 1, 127}

\* pictures one camera decodes before the model stops decoding
MaxPictures == 3

\* recording sessions started before the model stops starting them
MaxSessions == 1

\* stream descriptors in the configuration file
MaxStreams == 2

\* RtspStreamHandle components in the world
MaxHandles == 3

\* entries of the registry the model lets add_stream reach
MaxRegistered == 3

VARIABLES
    \* ---- convert_h264 (stream.rs:527-547) ----
    data,             \* the buffer `data: &mut [u8]`, rewritten in place
    input,            \* the buffer as it was handed to convert_h264
    result,           \* "pending" before the call, then its outcome
    overflow_checks,  \* the build: TRUE with overflow checks (debug), FALSE without
    \* ---- one entry per RtspStreamHandle component, in spawn order ----
    handle_id,        \* RtspStreamHandle.id (StreamId)
    created,          \* the entity carries the RtspStreamCreated marker
    latest_frame,     \* Arc<Mutex<Option<Bgra8Frame>>>: <<>> or <<frame>>
    poisoned,         \* the latest_frame mutex is poisoned
    recording_sender, \* Arc<Mutex<Option<Sender>>>: <<>> or <<task>>, the task
                      \* whose receiver the sender feeds
    image,            \* the destination Image of the handle
    decoded,          \* pictures decoded for the handle so far (they are numbered)
    delivered,        \* the pictures apply_decode copied to the image, in order
    \* ---- one entry per add_stream call: registry position = spawned task ----
    stream_handles,   \* RtspStreamManager.stream_handles: the handle of each entry
    pc,               \* where the task is: "connect", "pull", "decode", "panicked"
    packets,          \* NAL packets of the current access unit still to decode
    writer,           \* RtspStream.writer: <<>> or <<file>>
    finished,         \* the files whose Mp4Writer the task has finished
    appended,         \* the iteration of run that pulled last wrote its
                      \* access unit to the sink
    chan,             \* the mpsc::channel(1) of the task's current run
    prev_dims,        \* <<width, height>> of the picture the run decoded last
    run_result,       \* the error the run before returned, while the task is
                      \* about to connect again; "none" otherwise
    \* ---- the main (tick-driven) thread ----
    stream_uris,      \* StreamUris: the number of descriptors of the configuration
    app,              \* "prestartup" until create_streams has run, then "running",
                      \* or "panicked" once a system has panicked
    main,             \* the call of the manager the main thread is in
    next_session,     \* the id the next Session gets
    files,            \* the files created under <session>/raw: <<session, id>>
    raw_streams,      \* what the last stop_recording returned
    \* ---- person detection (person_detect.rs) ----
    mask,             \* the pixels (Luma8) of MattedStream.output, row by row
    asset_modified,   \* an AssetEvent::Modified of that image is unread
    ev_person,        \* Events<PersonDetectedEvent>: the events not yet read
                      \* by automatic_recording, oldest first
    \* ---- the viewer (tools/viewer.rs) ----
    live_session,     \* LiveSession: <<>> or <<entity>>
    person_timeout,   \* the Local<Stopwatch> of automatic_recording: elapsed seconds
    time_delta,       \* Time::delta of the tick automatic_recording ran last
    quiet,            \* seconds of ticks since automatic_recording last read an
                      \* event, counted up to Timeout + 1
    \* ---- one entry per session entity (StreamSessionBundle) ----
    session_id,       \* Session.id
    session_streams,  \* RawStreams.streams: the stream ids of the listed clips
    attached,         \* how often RawStreams was inserted after the spawn
    config,           \* PipelineConfig: the flags of the four stages
    stage_index,      \* per stage, <<>> or <<the frames map of the component>>
    \* ---- the pipeline (pipeline.rs), per session directory ----
    disk,             \* per stage, <<>> or <<the stage directory>>: for each
                      \* stream directory its artifacts in listing order
    first_index,      \* per stage, <<>> or <<the index of the computing run>>
    tool_calls,       \* extractions, rotations and inferences invoked so far
    reopens,          \* how often the application was started again
    onnx_assets,      \* Assets<Onnx>: the inference models that are loaded
    stage_error,      \* the failure the last stage run met and ignored
    \* ---- the functions checked on their own ----
    root,             \* the session root directory: <<>> while it does not
                      \* exist, else <<entries>>, the kind of entry of each name
    new_ids,          \* the ids Session::new returned so far, in call order
    grid,             \* the arguments and the result of the last call of
                      \* calculate_grid_dimensions
    found,            \* the call of masked_bounding_box on the mask: whether it
                      \* was made, and the Option<BoundingBox> it returned
    pixels,           \* the Luma8 image handed to sum_masked_pixels
    partial,          \* the partial sums its parallel reduction still holds
    extrema           \* the (min_x, min_y, max_x, max_y) the parallel reduction
                      \* of masked_bounding_box still holds, equal ones once

reframeVars == <<data, input, result, overflow_checks>>

handleVars == <<handle_id, created, latest_frame, poisoned, recording_sender,
                image, decoded, delivered>>

taskVars == <<stream_handles, pc, packets, writer, finished, appended, chan,
              prev_dims, run_result>>

mainVars == <<stream_uris, app, main, next_session, files, raw_streams>>

detectVars == <<mask, asset_modified, ev_person>>

viewerVars == <<live_session, person_timeout, time_delta, quiet>>

sessionVars == <<session_id, session_streams, attached, config, stage_index>>

pipelineVars == <<disk, first_index, tool_calls, reopens, onnx_assets,
                  stage_error>>

toolVars == <<root, new_ids, grid, found, pixels, partial, extrema>>

extVars == <<detectVars, viewerVars, sessionVars, pipelineVars, toolVars>>

vars == <<reframeVars, handleVars, taskVars, mainVars, extVars>>

\* no mask has been produced and no person detected
NoDetect == mask = <<>> /\ asset_modified = FALSE /\ ev_person = <<>>

\* automatic_recording has not run and no session is live (LiveSession
\* and Stopwatch defaults)
NoViewer ==
    /\ live_session = <<>> /\ person_timeout = 0 /\ time_delta = 0
    /\ quiet = 0

\* no session entity has been spawned and no session directory made
NoSessions ==
    /\ session_id = <<>> /\ session_streams = <<>> /\ attached = <<>>
    /\ config = <<>> /\ onnx_assets = {}
    /\ stage_index = <<>>
    /\ disk = <<>> /\ first_index = <<>> /\ tool_calls = 0 /\ reopens = 0
    /\ stage_error = "none"

\* masked_bounding_box has not been called
NotCalled == [called |-> FALSE, box |-> <<>>]

\* no function has been called on its own
NoTools ==
    /\ root = <<>> /\ new_ids = <<>> /\ grid = <<>> /\ found = NotCalled
    /\ pixels = <<>> /\ partial = <<>> /\ extrema = {}

\* nothing outside the capture layer has happened
NoExt == NoDetect /\ NoViewer /\ NoSessions /\ NoTools

-----------------------------------------------------------------------------
(***************************************************************************)
(* convert_h264                                                            *)
(***************************************************************************)

\* the outcomes of a call
Ok == "Ok"
PartialBody == "partial NAL body"
PartialLength == "partial NAL length"
Panic == "panic"

\* all buffers of at most n bytes
Buffers(n) == UNION {[1..k -> ByteVals] : k \in 0..n}

\* u32::from_le_bytes, the byte order a slip would use
from_le_bytes(b0, b1, b2, b3) ==
    b0 + 256 * b1 + 65536 * b2 + 16777216 * b3

\* u32::from_be_bytes([b0, b1, b2, b3]) as usize (stream.rs:531). With byte
\* values of at most 127 the value stays below 2^31.
from_be_bytes(b0, b1, b2, b3) ==
    16777216 * b0 + 65536 * b1 + 256 * b2 + b3

\* data[i] = 0; data[i+1] = 0; data[i+2] = 0; data[i+3] = 1 (stream.rs:532-535),
\* i counted from 0 as in the source
WriteStartCode(d, i) ==
    [k \in 1..Len(d) |->
        IF k \in (i + 1)..(i + 3) THEN 0
        ELSE IF k = i + 4 THEN 1
        ELSE d[k]]

\* the loop condition `i < data.len() - 3` (stream.rs:529) on usize. For
\* n < 3 a build without overflow checks wraps n - 3 to 2^64 + n - 3, which
\* every index is below; a build with them panics before the loop (see
\* convert_h264 below).
LoopCond(i, n) ==
    IF n >= 3 THEN i < n - 3 ELSE TRUE

\* the loop of stream.rs:529-540 from index i on, then the check of 542-544
RECURSIVE ConvertFrom(_, _)
ConvertFrom(d, i) ==
    IF LoopCond(i, Len(d))
    THEN IF i + 3 >= Len(d)
         THEN \* data[i + k] is out of bounds: the read of line 531 panics
              \* before any write
              [status |-> Panic, data |-> d]
         ELSE LET len == from_be_bytes(d[i + 1], d[i + 2], d[i + 3], d[i + 4])
                  d2 == WriteStartCode(d, i)
                  j == i + 4 + len
              IN  IF j > Len(d)
                  THEN [status |-> PartialBody, data |-> d2]
                  ELSE ConvertFrom(d2, j)
    ELSE IF i < Len(d)
         THEN [status |-> PartialLength, data |-> d]
         ELSE [status |-> Ok, data |-> d]

\* convert_h264(data) in a build with (checks) or without overflow checks:
\* `data.len() - 3` underflows for a buffer of fewer than 3 bytes
convert_h264(d, checks) ==
    IF checks /\ Len(d) < 3
    THEN [status |-> Panic, data |-> d]
    ELSE ConvertFrom(d, 0)

\* the main thread is in no call of the manager
Idle == [op |-> "idle", session |-> 0, i |-> 0, sending |-> FALSE,
         filepaths |-> <<>>]

\* the main thread before its first system runs
MainIdle ==
    /\ app = "running"
    /\ stream_uris = Len(handle_id)
    /\ main = Idle
    /\ next_session = 0
    /\ files = {}
    /\ raw_streams = <<>>

\* no handle has been spawned and no stream registered
NoStreams ==
    /\ handle_id = <<>> /\ created = <<>> /\ latest_frame = <<>>
    /\ poisoned = <<>> /\ recording_sender = <<>> /\ image = <<>>
    /\ decoded = <<>> /\ delivered = <<>>
    /\ stream_handles = <<>> /\ pc = <<>> /\ packets = <<>> /\ writer = <<>>
    /\ finished = <<>> /\ appended = <<>>
    /\ chan = <<>> /\ prev_dims = <<>> /\ run_result = <<>>

ReframeInit ==
    /\ data \in Buffers(MaxLen)
    /\ input = data
    /\ result = "pending"
    /\ overflow_checks \in BOOLEAN
    /\ NoStreams
    /\ MainIdle
    /\ NoExt

\* one call of convert_h264 on the buffer
ConvertH264 ==
    /\ result = "pending"
    /\ LET r == convert_h264(data, overflow_checks)
       IN  /\ data' = r.data
           /\ result' = r.status
    /\ UNCHANGED <<input, overflow_checks, handleVars, taskVars, mainVars>>
    /\ UNCHANGED extVars

ReframeNext == ConvertH264

SpecReframe == ReframeInit /\ [][ReframeNext]_vars

-----------------------------------------------------------------------------
(***************************************************************************)
(* The camera task: RtspStream::run under the supervisor of add_stream,    *)
(* and the consumer poll apply_decode.                                     *)
(***************************************************************************)

\* the sizes a decoded picture can have (width, height): the size of the
\* initial image and another one
Dims == {<<32, 32>>, <<64, 32>>}

\* the image RtspStreamHandle::new allocates (stream.rs:187-213); seq names
\* the picture whose pixels it holds, 0 for none
InitialImage == [width |-> 32, height |-> 32, seq |-> 0]

\* the access units capture_frame can return: one unit with a payload byte,
\* two empty units, a unit with a cut body, a cut length field, and a buffer
\* shorter than a length field
SampleFrames ==
    { <<0, 0, 0, 1, 127>>, <<0, 0, 0, 0, 0, 0, 0, 0>>, <<0, 0, 0, 127>>,
      <<0, 0, 0, 0, 1>>, <<0>> }

\* openh264's nal_units(&data) (stream.rs:417): the packets of an Annex B
\* buffer, one per start code 00 00 01
NalUnits(d) ==
    Cardinality({k \in 1..(Len(d) - 2) :
                    d[k] = 0 /\ d[k + 1] = 0 /\ d[k + 2] = 1})

\* a receiver that is gone: before the first run, after a run has returned,
\* after the task has panicked
ClosedChan == [open |-> FALSE, queue |-> <<>>]

\* mpsc::channel(1) (stream.rs:369)
NewChan == [open |-> TRUE, queue |-> <<>>]

\* `loop { let _ = stream.run().await; }` (stream.rs:286-289): where the task
\* is once run() has returned an error
Supervise == "connect"

\* the state of n handles with ids 0..n-1, each registered by
\* create_streams_from_descriptors, its task spawned and about to connect
Registered(n) ==
    /\ handle_id = [h \in 1..n |-> h - 1]
    /\ created = [h \in 1..n |-> TRUE]
    /\ latest_frame = [h \in 1..n |-> <<>>]
    /\ poisoned = [h \in 1..n |-> FALSE]
    /\ recording_sender = [h \in 1..n |-> <<>>]
    /\ image = [h \in 1..n |-> InitialImage]
    /\ decoded = [h \in 1..n |-> 0]
    /\ delivered = [h \in 1..n |-> <<>>]
    /\ stream_handles = [r \in 1..n |-> r]
    /\ pc = [r \in 1..n |-> "connect"]
    /\ packets = [r \in 1..n |-> 0]
    /\ writer = [r \in 1..n |-> <<>>]
    /\ finished = [r \in 1..n |-> {}]
    /\ appended = [r \in 1..n |-> FALSE]
    /\ chan = [r \in 1..n |-> ClosedChan]
    /\ prev_dims = [r \in 1..n |-> <<>>]
    /\ run_result = [r \in 1..n |-> "none"]
    /\ MainIdle

\* no call of convert_h264 is being looked at on its own
NoBuffer ==
    /\ data = <<>> /\ input = <<>> /\ result = "pending"
    /\ overflow_checks \in BOOLEAN

Tasks == DOMAIN stream_handles

Handles == DOMAIN handle_id

\* run() returns Err(kind) through a `?`: the receiver of the run is dropped
\* with what it holds, and the supervisor takes over
EndRun(r, kind) ==
    /\ pc' = [pc EXCEPT ![r] = Supervise]
    /\ packets' = [packets EXCEPT ![r] = 0]
    /\ chan' = [chan EXCEPT ![r] = ClosedChan]
    /\ prev_dims' = [prev_dims EXCEPT ![r] = <<>>]
    /\ run_result' = [run_result EXCEPT ![r] = kind]

\* the task panics: tokio drops its future, and with it the receiver and
\* the writer; the loop of add_stream is gone with it
PanicTask(r) ==
    /\ pc' = [pc EXCEPT ![r] = "panicked"]
    /\ packets' = [packets EXCEPT ![r] = 0]
    /\ chan' = [chan EXCEPT ![r] = ClosedChan]
    /\ writer' = [writer EXCEPT ![r] = <<>>]
    /\ UNCHANGED run_result

\* the main thread holds the recording_sender mutex of handle h: the guard
\* `send_channel` of start_recording and stop_recording lives across the send
SenderLocked(h) ==
    /\ main.op \in {"start_recording", "stop_recording"}
    /\ main.sending
    /\ stream_handles[main.i] = h

\* create_session and the channel set-up of run (stream.rs:366-374); the
\* lock of line 372 waits while the main thread holds the mutex
RunConnect(r) ==
    /\ pc[r] = "connect"
    /\ ~SenderLocked(stream_handles[r])
    /\ \E out \in {"ok", "connection failure", "no video track"} :
        IF out = "ok"
        THEN /\ pc' = [pc EXCEPT ![r] = "pull"]
             /\ chan' = [chan EXCEPT ![r] = NewChan]
             /\ recording_sender' =
                    [recording_sender EXCEPT ![stream_handles[r]] = <<r>>]
             /\ run_result' = [run_result EXCEPT ![r] = "none"]
             /\ UNCHANGED <<packets, prev_dims>>
        ELSE /\ EndRun(r, out)
             /\ UNCHANGED recording_sender
    /\ UNCHANGED <<reframeVars, handle_id, created, latest_frame, poisoned,
                   image, decoded, delivered, stream_handles, writer, finished,
                   appended, mainVars>>
    /\ UNCHANGED extVars

\* the channel after receiver.try_recv() (stream.rs:379): one command is
\* taken if there is one, and the call never waits
Received(q) == IF q = <<>> THEN <<>> ELSE Tail(q)

\* the writer after the command (if any) that try_recv returned
\* (stream.rs:379-401); Mp4Writer::new(...).ok() is None when it fails
AfterCommand(w, q, writer_ok) ==
    IF q = <<>> THEN w
    ELSE IF Head(q).cmd = "StartRecording"
         THEN IF writer_ok THEN <<Head(q).file>> ELSE <<>>
         ELSE <<>>

\* a command that finishes no sink
NotFinalized(done, w, q) == done

\* the files finished after the command (if any) that try_recv returned:
\* `self.writer.take()` and `writer.finish()` (stream.rs:382-384, 395-398)
Finalized(done, w, q) == IF q # <<>> /\ w # <<>> THEN done \cup {w[1]} ELSE done

\* an iteration that writes its access unit whether or not a sink is active
WrittenAnyway(w, video_ok) == video_ok

\* the iteration writes its access unit: `writer.video(..)` is called on
\* the sink w that is active after the command, and succeeds
\* (stream.rs:404-409)
WrittenToSink(w, video_ok) == w # <<>> /\ video_ok

\* one pass of the loop of run up to the decoder (stream.rs:377-415):
\* capture_frame, the recording command, the sink, convert_h264; frames are
\* the access units the camera sends
RunPull(r, frames) ==
    /\ pc[r] = "pull"
    /\ \E cap \in {"frame", "no frame received"} :
        IF cap # "frame"
        THEN EndRun(r, cap) /\ UNCHANGED <<writer, finished, appended>>
        ELSE
        \E buf \in frames,
           writer_ok \in IF chan[r].queue = <<>> THEN {TRUE} ELSE BOOLEAN :
        LET w == AfterCommand(writer[r], chan[r].queue, writer_ok)
            conv == convert_h264(buf, overflow_checks)
            n == NalUnits(conv.data)
        IN  \E video_ok \in IF w = <<>> THEN {TRUE} ELSE BOOLEAN :
            /\ finished' = [finished EXCEPT
                                ![r] = Finalized(@, writer[r], chan[r].queue)]
            /\ appended' = [appended EXCEPT ![r] = WrittenToSink(w, video_ok)]
            /\ IF ~video_ok
               THEN /\ EndRun(r, "sink write error")
                    /\ writer' = [writer EXCEPT ![r] = w]
               ELSE IF conv.status = Panic
               THEN PanicTask(r) /\ UNCHANGED prev_dims
               ELSE IF conv.status \in {PartialBody, PartialLength}
               THEN /\ EndRun(r, "framing error")
                    /\ writer' = [writer EXCEPT ![r] = w]
               ELSE
                 /\ writer' = [writer EXCEPT ![r] = w]
                 /\ chan' = [chan EXCEPT ![r].queue = Received(@)]
                 /\ packets' = [packets EXCEPT ![r] = n]
                 /\ pc' = [pc EXCEPT ![r] = IF n = 0 THEN "pull" ELSE "decode"]
                 /\ UNCHANGED <<prev_dims, run_result>>
    /\ UNCHANGED <<reframeVars, handleVars, stream_handles, mainVars>>
    /\ UNCHANGED extVars

\* the slot once it holds every picture published so far
PublishQueued(slot, pic) == Append(slot, pic)

\* the slot after a picture is published (stream.rs:426-449): the pixels of
\* the retained frame are overwritten in place, or the frame is allocated
Publish(slot, pic) ==
    IF slot = <<>>
    THEN <<pic>>
    ELSE <<[slot[1] EXCEPT !.seq = pic.seq]>>

\* the asserts of stream.rs:428-429 pass
SizeMatches(slot, pic) ==
    slot # <<>> => slot[1].width = pic.width /\ slot[1].height = pic.height

\* one packet of the access unit through the decoder, and the picture it
\* completes, if any, into the slot (stream.rs:417-452); sizes are the sizes
\* of the pictures the stream carries
RunDecode(r, sizes) ==
    LET h == stream_handles[r]
        left == packets[r] - 1
        seq == decoded[h] + 1
    IN
    /\ pc[r] = "decode"
    /\ \E out \in {<<"decode error">>, <<"none">>}
                \cup (IF decoded[h] < MaxPictures THEN sizes ELSE {}) :
        IF out = <<"decode error">>
        THEN /\ EndRun(r, "decode error")
             /\ UNCHANGED <<writer, latest_frame, poisoned, decoded>>
        ELSE IF out = <<"none">>
        THEN /\ packets' = [packets EXCEPT ![r] = left]
             /\ pc' = [pc EXCEPT ![r] = IF left = 0 THEN "pull" ELSE "decode"]
             /\ UNCHANGED <<writer, chan, prev_dims, run_result,
                            latest_frame, poisoned, decoded>>
        ELSE LET pic == [width |-> out[1], height |-> out[2], seq |-> seq]
             IN  /\ decoded' = [decoded EXCEPT ![h] = seq]
                 /\ prev_dims' = [prev_dims EXCEPT ![r] = out]
                 /\ IF poisoned[h]
                    THEN \* latest_frame.lock().unwrap() panics
                         /\ PanicTask(r)
                         /\ UNCHANGED <<latest_frame, poisoned>>
                    ELSE IF ~SizeMatches(latest_frame[h], pic)
                    THEN \* assert_eq! panics with the guard held
                         /\ PanicTask(r)
                         /\ poisoned' = [poisoned EXCEPT ![h] = TRUE]
                         /\ UNCHANGED latest_frame
                    ELSE /\ latest_frame' =
                                [latest_frame EXCEPT
                                    ![h] = Publish(latest_frame[h], pic)]
                         /\ packets' = [packets EXCEPT ![r] = left]
                         /\ pc' = [pc EXCEPT
                                    ![r] = IF left = 0 THEN "pull" ELSE "decode"]
                         /\ UNCHANGED <<writer, chan, run_result,
                                        poisoned>>
    /\ UNCHANGED <<reframeVars, handle_id, created, recording_sender, image,
                   delivered, stream_handles, finished, appended, mainVars>>
    /\ UNCHANGED extVars

\* a take_frame that copies the frame and leaves it in the slot
TakeClone(slot) == [got |-> slot, left |-> slot]

\* take_frame (stream.rs:224-226): Option::take
take_frame(slot) == [got |-> slot, left |-> <<>>]

\* the image after apply_decode has copied a frame to it (stream.rs:115-134)
Copied(img, frame) ==
    LET sized == IF img.width # frame.width \/ img.height # frame.height
                 THEN [img EXCEPT !.width = frame.width,
                                  !.height = frame.height]
                 ELSE img
    IN  [sized EXCEPT !.seq = frame.seq]

\* the first handle, in query order, whose mutex is poisoned, or one past
\* the last handle
FirstPoisoned ==
    LET bad == {h \in Handles : poisoned[h]}
    IN  IF bad = {} THEN Len(handle_id) + 1
        ELSE CHOOSE h \in bad : \A g \in bad : h <= g

\* apply_decode (stream.rs:108-137): one run of the system over every
\* handle; take_frame's lock().unwrap() panics on a poisoned mutex
ApplyDecode ==
    /\ app = "running"
    /\ main.op = "idle"
    /\ Handles # {}
    /\ LET stop == FirstPoisoned
           took == [h \in Handles |->
                        IF h < stop THEN take_frame(latest_frame[h])
                        ELSE [got |-> <<>>, left |-> latest_frame[h]]]
       IN  /\ latest_frame' = [h \in Handles |-> took[h].left]
           /\ image' = [h \in Handles |->
                            IF took[h].got = <<>> THEN image[h]
                            ELSE Copied(image[h], took[h].got[1])]
           /\ delivered' = [h \in Handles |->
                            IF took[h].got = <<>> THEN delivered[h]
                            ELSE Append(delivered[h], took[h].got[1].seq)]
           /\ app' = IF stop \in Handles THEN "panicked" ELSE "running"
    /\ UNCHANGED <<reframeVars, handle_id, created, poisoned, recording_sender,
                   decoded, taskVars, stream_uris, main, next_session, files,
                   raw_streams>>
    /\ UNCHANGED extVars

StartRecordingCmd(path) == [cmd |-> "StartRecording", file |-> path]

StopRecordingCmd == [cmd |-> "StopRecording", file |-> <<>>]

\* a channel that always has room
AlwaysRoom(t) == TRUE

\* a send that completes only when the channel is open and has room
OpenWithRoom(t) == chan[t].open /\ chan[t].queue = <<>>

\* sender.send(command).await on the channel of task t can complete: the
\* channel has room, or its receiver is gone and the send fails at once
CanSend(t) == ~chan[t].open \/ chan[t].queue = <<>>

\* the channels after the send; a failed send is dropped (`let _ =`)
Sent(t, command) ==
    IF chan[t].open
    THEN [chan EXCEPT ![t].queue = Append(@, command)]
    ELSE chan

\* the call returns at the first handle
ReturnEarly == Idle

\* the call moves on to the next registered handle, or returns
Advance == IF main.i < Len(stream_handles)
           THEN [main EXCEPT !.i = @ + 1, !.sending = FALSE]
           ELSE Idle

\* start_recording(session) is called (stream.rs:293-297): the raw directory
\* is created and the registry locked. The caller made the session with
\* Session::new, which numbers it.
StartRecordingCall ==
    /\ app = "running"
    /\ main.op = "idle"
    /\ next_session < MaxSessions
    /\ next_session' = next_session + 1
    /\ main' = IF stream_handles = <<>> THEN Idle
               ELSE [op |-> "start_recording", session |-> next_session,
                     i |-> 1, sending |-> FALSE, filepaths |-> <<>>]
    /\ UNCHANGED <<reframeVars, handleVars, taskVars, stream_uris, app, files,
                   raw_streams>>
    /\ UNCHANGED extVars

\* start_recording at one handle, up to the send (stream.rs:298-312): a
\* handle without a sender is skipped, for the others the file is created
StartRecordingVisit ==
    /\ main.op = "start_recording"
    /\ ~main.sending
    /\ LET h == stream_handles[main.i]
       IN  IF recording_sender[h] = <<>>
           THEN /\ main' = Advance
                /\ UNCHANGED files
           ELSE /\ main' = [main EXCEPT !.sending = TRUE]
                /\ files' = files \cup {<<main.session, handle_id[h]>>}
    /\ UNCHANGED <<reframeVars, handleVars, taskVars, stream_uris, app,
                   next_session, raw_streams>>
    /\ UNCHANGED extVars

\* the send of start_recording (stream.rs:313), once it can complete
StartRecordingSend ==
    /\ main.op = "start_recording"
    /\ main.sending
    /\ LET h == stream_handles[main.i]
           t == recording_sender[h][1]
       IN  /\ CanSend(t)
           /\ chan' = Sent(t, StartRecordingCmd(<<main.session, handle_id[h]>>))
    /\ main' = Advance
    /\ UNCHANGED <<reframeVars, handleVars, stream_handles, pc, packets, writer,
                   finished, appended,
                   prev_dims, run_result, stream_uris, app, next_session,
                   files, raw_streams>>
    /\ UNCHANGED extVars

\* stop_recording() is called (stream.rs:318-321)
StopRecordingCall ==
    /\ app = "running"
    /\ main.op = "idle"
    /\ IF stream_handles = <<>>
       THEN main' = Idle /\ raw_streams' = <<>>
       ELSE /\ main' = [op |-> "stop_recording", session |-> 0, i |-> 1,
                        sending |-> FALSE, filepaths |-> <<>>]
            /\ UNCHANGED raw_streams
    /\ UNCHANGED <<reframeVars, handleVars, taskVars, stream_uris, app,
                   next_session, files>>
    /\ UNCHANGED extVars

\* stop_recording at one handle, up to the send (stream.rs:322-330)
StopRecordingVisit ==
    /\ main.op = "stop_recording"
    /\ ~main.sending
    /\ LET h == stream_handles[main.i]
       IN  IF recording_sender[h] = <<>>
           THEN /\ main' = Advance
                /\ raw_streams' = IF main.i < Len(stream_handles)
                                  THEN raw_streams ELSE main.filepaths
           ELSE /\ main' = [main EXCEPT !.sending = TRUE]
                /\ UNCHANGED raw_streams
    /\ UNCHANGED <<reframeVars, handleVars, taskVars, stream_uris, app,
                   next_session, files>>
    /\ UNCHANGED extVars

\* the send of stop_recording, once it can complete, and the push of the
\* file name (stream.rs:332-336); the list is returned after the last handle
StopRecordingSend ==
    /\ main.op = "stop_recording"
    /\ main.sending
    /\ LET h == stream_handles[main.i]
           t == recording_sender[h][1]
           paths == Append(main.filepaths, handle_id[h])
       IN  /\ CanSend(t)
           /\ chan' = Sent(t, StopRecordingCmd)
           /\ IF main.i < Len(stream_handles)
              THEN /\ main' = [main EXCEPT !.i = @ + 1, !.sending = FALSE,
                                           !.filepaths = paths]
                   /\ UNCHANGED raw_streams
              ELSE /\ main' = Idle
                   /\ raw_streams' = paths
    /\ UNCHANGED <<reframeVars, handleVars, stream_handles, pc, packets, writer,
                   finished, appended,
                   prev_dims, run_result, stream_uris, app, next_session,
                   files>>
    /\ UNCHANGED extVars

\* one camera, registered, its task spawned
CameraInit == NoBuffer /\ Registered(1) /\ NoExt

\* the run loop and the consumer poll; nothing is recorded
CameraNext ==
    \/ \E r \in Tasks : RunConnect(r)
    \/ \E r \in Tasks : RunPull(r, SampleFrames)
    \/ \E r \in Tasks : RunDecode(r, Dims)
    \/ ApplyDecode

SpecCamera == CameraInit /\ [][CameraNext]_vars

\* the access units of the cameras that are recorded: a whole unit, a unit
\* with a cut body, a buffer shorter than a length field
RecordedFrames == { <<0, 0, 0, 1, 127>>, <<0, 0, 0, 127>>, <<0>> }

\* two cameras, registered, their tasks spawned
RecordingInit == NoBuffer /\ Registered(2) /\ NoExt

\* the two run loops and the recording calls; the streams complete no
\* picture
RecordingNext ==
    \/ \E r \in Tasks : RunConnect(r)
    \/ \E r \in Tasks : RunPull(r, RecordedFrames)
    \/ \E r \in Tasks : RunDecode(r, {})
    \/ StartRecordingCall
    \/ StartRecordingVisit
    \/ StartRecordingSend
    \/ StopRecordingCall
    \/ StopRecordingVisit
    \/ StopRecordingSend

SpecRecording == RecordingInit /\ [][RecordingNext]_vars

-----------------------------------------------------------------------------
(***************************************************************************)
(* The registry: create_streams, create_streams_from_descriptors and       *)
(* RtspStreamManager::add_stream.                                          *)
(***************************************************************************)

\* a sequence of n copies of x
Copies(n, x) == [k \in 1..n |-> x]

\* k new RtspStreamHandle components with the ids of `ids`
\* (RtspStreamHandle::new, stream.rs:182-222)
SpawnHandles(ids) ==
    LET k == Len(ids)
    IN  /\ handle_id' = handle_id \o ids
        /\ created' = created \o Copies(k, FALSE)
        /\ latest_frame' = latest_frame \o Copies(k, <<>>)
        /\ poisoned' = poisoned \o Copies(k, FALSE)
        /\ recording_sender' = recording_sender \o Copies(k, <<>>)
        /\ image' = image \o Copies(k, InitialImage)
        /\ decoded' = decoded \o Copies(k, 0)
        /\ delivered' = delivered \o Copies(k, <<>>)

\* RtspStreamManager::contains (stream.rs:277-279) on the registry reg
contains(reg, id) == \E i \in DOMAIN reg : handle_id[reg[i]] = id

\* add_stream (stream.rs:281-291) for each handle of hs in turn: the handle
\* is pushed to the registry and its task spawned
Added(hs) ==
    LET k == Len(hs)
    IN  /\ stream_handles' = stream_handles \o hs
        /\ pc' = pc \o Copies(k, "connect")
        /\ packets' = packets \o Copies(k, 0)
        /\ writer' = writer \o Copies(k, <<>>)
        /\ finished' = finished \o Copies(k, {})
        /\ appended' = appended \o Copies(k, FALSE)
        /\ chan' = chan \o Copies(k, ClosedChan)
        /\ prev_dims' = prev_dims \o Copies(k, <<>>)
        /\ run_result' = run_result \o Copies(k, "none")

\* the handles of todo that create_streams_from_descriptors registers
\* before its assert! fails, or all of them (stream.rs:99-104); reg is the
\* registry so far
RECURSIVE Registers(_, _)
Registers(reg, todo) ==
    IF todo = <<>> THEN <<>>
    ELSE IF contains(reg, handle_id[Head(todo)]) THEN <<>>
    ELSE <<Head(todo)>> \o Registers(Append(reg, Head(todo)), Tail(todo))

\* the handles without the RtspStreamCreated marker, in query order
RECURSIVE Unmarked(_)
Unmarked(h) ==
    IF h > Len(handle_id) THEN <<>>
    ELSE (IF created[h] THEN <<>> ELSE <<h>>) \o Unmarked(h + 1)

\* create_streams (stream.rs:69-85), the PreStartup system: one handle per
\* descriptor, its id the descriptor's index
CreateStreams ==
    /\ app = "prestartup"
    /\ app' = "running"
    /\ SpawnHandles([k \in 1..stream_uris |-> k - 1])
    /\ UNCHANGED <<reframeVars, taskVars, stream_uris, main, next_session,
                   files, raw_streams>>
    /\ UNCHANGED extVars

\* a system outside the plugin adds a RtspStreamHandle component of its own
\* with the index of a descriptor as id, as the viewer's create_streams does
\* (viewer.rs:211-217)
SpawnHandle(id) ==
    /\ app = "running"
    /\ main.op = "idle"
    /\ Len(handle_id) < MaxHandles
    /\ SpawnHandles(<<id>>)
    /\ UNCHANGED <<reframeVars, taskVars, mainVars>>
    /\ UNCHANGED extVars

\* create_streams_from_descriptors (stream.rs:88-105), one run of the Update
\* system: every handle without the marker is registered, unless the assert
\* fails first; the markers are inserted by commands, which a panicking
\* system never applies
CreateStreamsFromDescriptors ==
    /\ app = "running"
    /\ main.op = "idle"
    /\ LET todo == Unmarked(1)
           done == Registers(stream_handles, todo)
       IN  /\ Len(stream_handles) + Len(done) <= MaxRegistered
           /\ Added(done)
           /\ IF Len(done) = Len(todo)
              THEN /\ created' = [h \in Handles |-> TRUE]
                   /\ app' = "running"
              ELSE /\ created' = created
                   /\ app' = "panicked"
    /\ UNCHANGED <<reframeVars, handle_id, latest_frame, poisoned,
                   recording_sender, image, decoded, delivered, stream_uris,
                   main, next_session, files, raw_streams>>
    /\ UNCHANGED extVars

\* add_stream(RtspStream::new(handle.clone())) called on its own with a
\* handle of the world (stream.rs:281-291, 353-363)
AddStream(h) ==
    /\ app = "running"
    /\ main.op = "idle"
    /\ Len(stream_handles) < MaxRegistered
    /\ Added(<<h>>)
    /\ UNCHANGED <<reframeVars, handleVars, mainVars>>
    /\ UNCHANGED extVars

\* the state after the plugin is built (stream.rs:55-66): the descriptors
\* are loaded, the registry is empty, no system has run
ManagerInit ==
    /\ NoBuffer
    /\ NoStreams
    /\ stream_uris \in 0..MaxStreams
    /\ app = "prestartup"
    /\ main = Idle
    /\ next_session = 0
    /\ files = {}
    /\ raw_streams = <<>>
    /\ NoExt

ManagerNext ==
    \/ CreateStreams
    \/ CreateStreamsFromDescriptors
    \/ \E id \in 0..(stream_uris - 1) : SpawnHandle(id)
    \/ \E h \in Handles : AddStream(h)

SpecManager == ManagerInit /\ [][ManagerNext]_vars

\* the registry mutex is held: the guard `stream_handles` of start_recording
\* and stop_recording lives from the lock (stream.rs:297, 321) to the return
RegistryLocked == main.op \in {"start_recording", "stop_recording"}

\* contains and add_stream, called by create_streams_from_descriptors from
\* another thread than the recording calls (stream.rs:100-103): each locks
\* the registry for one statement (278, 282), so the system waits while the
\* registry mutex is held
RegisterLocked ==
    /\ ~RegistryLocked
    /\ CreateStreamsFromDescriptors

\* the access units of the cameras whose locks are looked at
LockFrames == {<<0, 0, 0, 1, 127>>}

\* one descriptor was loaded; no handle is in the world and the registry
\* is empty
LocksInit ==
    /\ NoBuffer
    /\ NoStreams
    /\ stream_uris = 1
    /\ app = "running"
    /\ main = Idle
    /\ next_session = 0
    /\ files = {}
    /\ raw_streams = <<>>
    /\ NoExt

\* the run loop, the recording calls, and the handles that systems spawn
\* and create_streams_from_descriptors registers
LocksNext ==
    \/ \E r \in Tasks : RunConnect(r)
    \/ \E r \in Tasks : RunPull(r, LockFrames)
    \/ \E r \in Tasks : RunDecode(r, {})
    \/ StartRecordingCall
    \/ StartRecordingVisit
    \/ StartRecordingSend
    \/ StopRecordingCall
    \/ StopRecordingVisit
    \/ StopRecordingSend
    \/ \E id \in 0..(stream_uris - 1) : SpawnHandle(id)
    \/ RegisterLocked

SpecLocks == LocksInit /\ [][LocksNext]_vars

\* every run loop keeps pulling access units or fails, and the thread in
\* start_recording or stop_recording runs when it can
SpecLocksFair ==
    /\ SpecLocks
    /\ \A r \in 1..MaxRegistered :
          WF_vars(/\ r \in Tasks
                  /\ \/ RunConnect(r)
                     \/ RunPull(r, LockFrames)
                     \/ RunDecode(r, {}))
    /\ WF_vars(\/ StartRecordingVisit
               \/ StartRecordingSend
               \/ StopRecordingVisit
               \/ StopRecordingSend)

-----------------------------------------------------------------------------
(***************************************************************************)
(* Person detection: detect_person of person_detect.rs, on the mask of one *)
(* matted stream with the DetectPersons marker.                            *)
(***************************************************************************)

\* The f32 values of the mask sums. A value v is held as the integer
\* v * 2^26: every f32 from 2^-3 up to 32, and 0, is such an integer, which
\* covers pixel / 255.0 for the pixel values 0 and 32..255 and the sums of
\* a few of them.
One == 2^26

\* the values of a 24 bit significand
Mantissa == 2^24

\* the least k with i < 2^(24 + k): the significand of i ends k bits above
\* the unit
RECURSIVE Shift(_, _)
Shift(i, k) == IF i < Mantissa * 2^k THEN k ELSE Shift(i, k + 1)

\* i + f / d (0 <= f < d) rounded to the nearest f32, ties to even
Rounded(i, f, d) ==
    LET q == 2^Shift(i, 0)
        r == i % q
        base == i - r
    IN  IF 2 * (r * d + f) > q * d THEN base + q
        ELSE IF 2 * (r * d + f) < q * d THEN base
        ELSE IF (base \div q) % 2 = 0 THEN base ELSE base + q

\* n / 255.0 for an integer n (0, or 32 and more), correctly rounded:
\* 2^26 / 255 is 4 * (65793 + 1 / 255)
Over255(n) ==
    LET four == One \div Mantissa
    IN  Rounded(four * n * ((Mantissa - 1) \div 255) + (four * n) \div 255,
                (four * n) % 255, 255)

\* a pixel scaled by 1 / 256
Over256(n) == n * (One \div 256)

\* `pixel.0[0] as f32 / 255.0` (person_detect.rs:136)
Intensity(pixel) == Over255(pixel)

\* the f32 sum a + b
F32Add(a, b) == Rounded(a + b, 0, 1)

\* the size of the mask image: twice as wide as high
MaskWidth == 4

MaskHeight == MaskWidth \div 2

\* the Luma8 values of a mask pixel: background and foreground
PixelVals == {0, 255}

Masks == [1..(MaskWidth * MaskHeight) -> PixelVals]

\* the coordinates of pixel k of a mask, rows first
PixelX(k) == (k - 1) % MaskWidth
PixelY(k) == (k - 1) \div MaskWidth

Min(S) == CHOOSE x \in S : \A y \in S : x <= y
\* the least element where the greatest is asked for
Smallest(S) == Min(S)

Max(S) == CHOOSE x \in S : \A y \in S : y <= x

\* masked_bounding_box (person_detect.rs:78-127): None (<<>>) without a
\* pixel above 128, else the box around those pixels
masked_bounding_box(img) ==
    LET lit == {k \in DOMAIN img : img[k] > 128}
        xs == {PixelX(k) : k \in lit}
        ys == {PixelY(k) : k \in lit}
    IN  IF lit = {} THEN <<>>
        ELSE <<[x |-> Min(xs), y |-> Min(ys),
                width |-> Max(xs) - Min(xs) + 1,
                height |-> Max(ys) - Min(ys) + 1]>>

\* sum_masked_pixels (person_detect.rs:130-141): the f32 sum of
\* pixel / 255.0 from pixel k on, added up in one of the orders the
\* parallel sum can take (SpecSum takes them all)
RECURSIVE SumFrom(_, _)
SumFrom(img, k) ==
    IF k > Len(img) THEN 0
    ELSE F32Add(Intensity(img[k]), SumFrom(img, k + 1))

sum_masked_pixels(img) == SumFrom(img, 1)

\* `let person_detected = false;` (person_detect.rs:66)
person_detected == FALSE

\* the stream id of the matted stream
MattedStreamId == 0

\* matting_inference writes a new mask to MattedStream.output
\* (matting.rs:145-160), which raises AssetEvent::Modified
ModifyMask ==
    /\ mask' \in Masks
    /\ asset_modified' = TRUE
    /\ UNCHANGED <<ev_person, reframeVars, handleVars, taskVars, mainVars,
                   viewerVars, sessionVars, pipelineVars>>
    /\ UNCHANGED toolVars

\* detect_person (person_detect.rs:43-75), one run that finds the
\* Modified event of the mask
DetectPerson ==
    /\ asset_modified
    /\ asset_modified' = FALSE
    /\ LET bounding_box == masked_bounding_box(mask)
           sum == sum_masked_pixels(mask)
       IN  ev_person' =
               IF person_detected
               THEN Append(ev_person,
                           [stream_id |-> MattedStreamId,
                            bounding_box |-> bounding_box[1],
                            mask_sum |-> sum])
               ELSE ev_person
    /\ UNCHANGED <<mask, reframeVars, handleVars, taskVars, mainVars,
                   viewerVars, sessionVars, pipelineVars>>
    /\ UNCHANGED toolVars

\* the mask a MattedStream starts with
EmptyMask == [k \in 1..(MaskWidth * MaskHeight) |-> 0]

\* one matted stream, before its first inference
DetectInit ==
    /\ NoBuffer
    /\ NoStreams
    /\ MainIdle
    /\ mask = EmptyMask
    /\ asset_modified = FALSE
    /\ ev_person = <<>>
    /\ NoViewer
    /\ NoSessions
    /\ NoTools

DetectNext ==
    \/ ModifyMask
    \/ DetectPerson

SpecDetect == DetectInit /\ [][DetectNext]_vars

\* the Luma8 values of the masks masked_bounding_box is called on by
\* itself: below the threshold, the threshold, above it
BoxVals == {0, 128, 255}

BoxMasks == [1..(MaskWidth * MaskHeight) -> BoxVals]

\* masked_bounding_box(&image) is called on the mask
BoundingBox ==
    /\ ~found.called
    /\ found' = [called |-> TRUE, box |-> masked_bounding_box(mask)]
    /\ UNCHANGED <<reframeVars, handleVars, taskVars, mainVars, detectVars,
                   viewerVars, sessionVars, pipelineVars, root, new_ids,
                   grid, pixels, partial, extrema>>

\* any mask, before the call
BoxInit ==
    /\ data = <<>> /\ input = <<>> /\ result = "pending"
    /\ overflow_checks = FALSE
    /\ NoStreams
    /\ MainIdle
    /\ mask \in BoxMasks
    /\ asset_modified = FALSE
    /\ ev_person = <<>>
    /\ NoViewer
    /\ NoSessions
    /\ NoTools

BoxNext == BoundingBox

SpecBox == BoxInit /\ [][BoxNext]_vars

\* the filter_map of masked_bounding_box (person_detect.rs:87-95): the
\* (x, y, x, y) of every pixel above 128
Extrema(img) ==
    {<<PixelX(k), PixelY(k), PixelX(k), PixelY(k)>> :
        k \in {j \in DOMAIN img : img[j] > 128}}

\* a reduction that keeps its first argument
KeepFirst(a, b) == a

\* the closure of reduce_with (person_detect.rs:96-112)
Combined(a, b) ==
    <<Min({a[1], b[1]}), Min({a[2], b[2]}), Max({a[3], b[3]}),
      Max({a[4], b[4]})>>

\* one step of reduce_with over the parallel bridge: two of the results
\* held are combined; which two, and in which order, is up to the scheduler
ReduceBoxes(a, b) ==
    /\ a # b
    /\ extrema' = (extrema \ {a, b}) \cup {Combined(a, b)}
    /\ UNCHANGED <<reframeVars, handleVars, taskVars, mainVars, detectVars,
                   viewerVars, sessionVars, pipelineVars, root, new_ids,
                   grid, found, pixels, partial>>

\* the box of the reduced extrema (person_detect.rs:114-126)
BoxOf(t) ==
    [x |-> t[1], y |-> t[2], width |-> t[3] - t[1] + 1,
     height |-> t[4] - t[2] + 1]

\* the reduction is over and masked_bounding_box returns: None when no
\* pixel passed the filter
ReturnBox ==
    /\ ~found.called
    /\ Cardinality(extrema) <= 1
    /\ found' = [called |-> TRUE,
                 box |-> IF extrema = {} THEN <<>>
                         ELSE <<BoxOf(CHOOSE t \in extrema : TRUE)>>]
    /\ UNCHANGED <<reframeVars, handleVars, taskVars, mainVars, detectVars,
                   viewerVars, sessionVars, pipelineVars, root, new_ids,
                   grid, pixels, partial, extrema>>

\* masked_bounding_box is called on any mask; the pixels are filtered
ReductionInit ==
    /\ data = <<>> /\ input = <<>> /\ result = "pending"
    /\ overflow_checks = FALSE
    /\ NoStreams
    /\ MainIdle
    /\ mask \in Masks
    /\ asset_modified = FALSE
    /\ ev_person = <<>>
    /\ NoViewer
    /\ NoSessions
    /\ root = <<>> /\ new_ids = <<>> /\ grid = <<>> /\ found = NotCalled
    /\ pixels = <<>> /\ partial = <<>>
    /\ extrema = Extrema(mask)

ReductionNext ==
    \/ \E a, b \in extrema : ReduceBoxes(a, b)
    \/ ReturnBox

SpecReduction == ReductionInit /\ [][ReductionNext]_vars

\* the most pixels of an image handed to sum_masked_pixels by itself
MaxPixels == 3

\* their Luma8 values, those of test_sum_masked_pixels
\* (person_detect.rs:183-185) and black
SumVals == {0, 63, 127, 255}

Images == UNION {[1..n -> SumVals] : n \in 1..MaxPixels}

\* `.map(|pixel| pixel.0[0] as f32 / 255.0)` (person_detect.rs:135-137)
Mapped(img) == [k \in DOMAIN img |-> Intensity(img[k])]

\* sequence q without its element j
Without(q, j) == [k \in 1..(Len(q) - 1) |-> IF k < j THEN q[k] ELSE q[k + 1]]

\* `.sum()` over the parallel bridge (person_detect.rs:134-138): two of the
\* partial sums are added; which two is up to the scheduler. The zero the
\* sum starts from adds nothing.
Reduce(i, j) ==
    /\ i < j
    /\ partial' = Without([partial EXCEPT ![i] = F32Add(partial[i], partial[j])],
                          j)
    /\ UNCHANGED <<reframeVars, handleVars, taskVars, mainVars, detectVars,
                   viewerVars, sessionVars, pipelineVars, root, new_ids,
                   grid, found, pixels, extrema>>

\* sum_masked_pixels is called on an image; the pixels are mapped
SumInit ==
    /\ NoBuffer
    /\ NoStreams
    /\ MainIdle
    /\ NoDetect
    /\ NoViewer
    /\ NoSessions
    /\ root = <<>> /\ new_ids = <<>> /\ grid = <<>> /\ found = NotCalled
    /\ extrema = {}
    /\ pixels \in Images
    /\ partial = Mapped(pixels)

SumNext == \E i, j \in DOMAIN partial : Reduce(i, j)

SpecSum == SumInit /\ [][SumNext]_vars

-----------------------------------------------------------------------------
(***************************************************************************)
(* The stage outputs of pipeline.rs. A session directory holds, per stage, *)
(* no directory (<<>>) or one (<<d>>), d mapping each stream directory to  *)
(* its artifacts in the order read_dir lists them. An artifact is named by *)
(* its frame index.                                                        *)
(***************************************************************************)

\* the frames ffmpeg extracts from one clip: 1.png .. MaxFrames.png
MaxFrames == 2

\* the sessions the viewer records
MaxLive == 2

\* the restarts of the application on one session directory
MaxReopens == 2

FrameNames == 1..MaxFrames

\* the directories of RawFrames, RotatedFrames, MaskFrames and YoloFrames
\* under the session directory (pipeline.rs:576, 709, 768, 636)
Stages == {"frames", "rotated_frames", "masks", "yolo_frames"}

\* a session entity as spawned: none of the stage components
NoComponents == [st \in Stages |-> <<>>]

\* a session directory as Session::new creates it (pipeline.rs:116-122)
NewDirectory == [st \in Stages |-> <<>>]

\* the orders in which a directory can list the entries of set S
Listings(S) ==
    {q \in [1..Cardinality(S) -> S] : \A x \in S : \E k \in DOMAIN q : q[k] = x}

\* the elements of sequence q
Range(q) == {q[k] : k \in DOMAIN q}

Entities == DOMAIN session_id

\* the inference models of ModnetPlugin and YoloPlugin (pipeline.rs:52-55)
Models == {"modnet", "yolo"}

\* PipelineConfig::default() (pipeline.rs:82-96), the flags of the four
\* stages that have a runner
DefaultConfig ==
    [raw_frames |-> TRUE, rotate_raw_frames |-> TRUE, yolo |-> TRUE,
     mask_frames |-> TRUE]

\* a query that does not filter on the output component
Unfiltered(e, needs, st) == \A c \in needs : stage_index[e][c] # <<>>

\* the query of a stage runner matches entity e: it has the components
\* `needs` and is Without the output component of stage st
\* (pipeline.rs:158-166, 213-221, 278-286, 396-404)
InQuery(e, needs, st) ==
    /\ \A c \in needs : stage_index[e][c] # <<>>
    /\ stage_index[e][st] = <<>>

\* a configuration that is not looked at
FlagIgnored(e, st) == TRUE

\* the flag of PipelineConfig a stage runner tests: `if config.raw_frames`,
\* `if config.rotate_raw_frames`, `if config.mask_frames`, `if config.yolo`
\* (pipeline.rs:173, 231, 295, 413)
Flag(e, st) ==
    CASE st = "frames" -> config[e].raw_frames
      [] st = "rotated_frames" -> config[e].rotate_raw_frames
      [] st = "masks" -> config[e].mask_frames
      [] st = "yolo_frames" -> config[e].yolo

\* `onnx_assets.get(&modnet.onnx)` is Some (pipeline.rs:297, 415)
Loaded(model) == model \in onnx_assets

\* the session directory of entity e
Dir(e) == disk[session_id[e] + 1]

\* a stage directory that is never found
NeverExists(e, st) == FALSE

\* X::exists(session) (pipeline.rs:612-618): the stage directory is there
exists(e, st) == Dir(e)[st] # <<>>

\* X::load_from_session(session) (pipeline.rs:572-585): what reload finds
\* after create_dir_all
load_from_session(e, st) == IF exists(e, st) THEN Dir(e)[st][1] ELSE <<>>

\* the session directory of e with dir as the directory of stage st
WithStage(e, st, dir) ==
    [disk EXCEPT ![session_id[e] + 1][st] = <<dir>>]

\* the stage component of e is inserted; the index of a computing run is
\* remembered
Inserted(e, st, index, run_node) ==
    /\ stage_index' = [stage_index EXCEPT ![e][st] = <<index>>]
    /\ first_index' =
          IF run_node
          THEN [first_index EXCEPT ![session_id[e] + 1][st] = <<index>>]
          ELSE first_index

\* generate_raw_frames (pipeline.rs:156-207) for session entity e. Every
\* clip of RawStreams is handed to ffmpeg, whose result is dropped
\* (`let _ =`); a failed extraction leaves the stream directory empty.
GenerateRawFrames(e) ==
    /\ app = "running"
    /\ main.op = "idle"
    /\ InQuery(e, {}, "frames")
    /\ Flag(e, "frames")
    /\ LET run_node == ~exists(e, "frames")
           clips == Range(session_streams[e])
       IN  IF run_node
           THEN \E written \in [clips -> Listings(FrameNames) \cup {<<>>}] :
                   /\ disk' = WithStage(e, "frames", written)
                   /\ tool_calls' = tool_calls + Cardinality(clips)
                   /\ stage_error' =
                         IF \E c \in clips : written[c] = <<>>
                         THEN "extraction failed" ELSE "none"
                   /\ Inserted(e, "frames", written, TRUE)
           ELSE /\ Inserted(e, "frames", load_from_session(e, "frames"),
                            FALSE)
                /\ stage_error' = "none"
                /\ UNCHANGED <<disk, tool_calls>>
    /\ UNCHANGED <<reframeVars, handleVars, taskVars, mainVars, detectVars,
                   viewerVars, session_id, session_streams, attached, config, reopens,
                   onnx_assets>>
    /\ UNCHANGED toolVars

\* the artifacts index has for stream c
Frames(index, c) == IF c \in DOMAIN index THEN Range(index[c]) ELSE {}

\* the number of artifacts of index, from stream c on
RECURSIVE CountFrom(_, _)
CountFrom(index, c) ==
    IF \A d \in DOMAIN index : d < c THEN 0
    ELSE (IF c \in DOMAIN index THEN Len(index[c]) ELSE 0)
         + CountFrom(index, c + 1)

Count(index) == CountFrom(index, 0)

\* the stage directories a run over the frames of `source` can leave: a
\* stream directory for some of the streams, each with some of the frames
\* of its stream, listed in some order
Written(source) ==
    UNION {
        {d \in [K -> UNION {Listings(S) : S \in SUBSET FrameNames}] :
            \A c \in K : Range(d[c]) \subseteq Range(source[c])} :
        K \in SUBSET DOMAIN source }

\* directory d holds every artifact the frames of `source` call for
Complete(d, source) ==
    /\ DOMAIN d = DOMAIN source
    /\ \A c \in DOMAIN source : Range(d[c]) = Range(source[c])

\* what a run of rotate_image over the frames of `source` can leave: every
\* artifact, or, when a rotation failed, the streams done before it whole,
\* the stream of the failed frame short of a frame and no directory for
\* the streams that were still to come
Rotated(source) ==
    {d \in Written(source) :
        Complete(d, source)
            \/ \E c \in DOMAIN d :
                  /\ Range(d[c]) # Range(source[c])
                  /\ \A b \in DOMAIN d \ {c} :
                        Range(d[b]) = Range(source[b])}

\* a system panics: the application ends, its commands are not applied
Panicked ==
    /\ app' = "panicked"
    /\ UNCHANGED <<stage_index, first_index, stage_error>>

\* generate_rotated_frames (pipeline.rs:210-273) for session entity e.
\* rotate_image(..).unwrap() panics on the first failure, with the stream
\* directories and artifacts made so far left behind; the index of a
\* computing run lists the frames in the order of RawFrames.
GenerateRotatedFrames(e) ==
    /\ app = "running"
    /\ main.op = "idle"
    /\ InQuery(e, {"frames"}, "rotated_frames")
    /\ Flag(e, "rotated_frames")
    /\ LET run_node == ~exists(e, "rotated_frames")
           raw_frames == stage_index[e]["frames"][1]
       IN  IF run_node
           THEN \E written \in Rotated(raw_frames) :
                   /\ disk' = WithStage(e, "rotated_frames", written)
                   /\ IF Complete(written, raw_frames)
                      THEN /\ tool_calls' = tool_calls + Count(raw_frames)
                           /\ Inserted(e, "rotated_frames", raw_frames, TRUE)
                           /\ stage_error' = "none"
                           /\ UNCHANGED app
                      ELSE /\ tool_calls' = tool_calls + Count(written) + 1
                           /\ Panicked
           ELSE /\ Inserted(e, "rotated_frames",
                            load_from_session(e, "rotated_frames"), FALSE)
                /\ stage_error' = "none"
                /\ UNCHANGED <<disk, tool_calls, app>>
    /\ UNCHANGED <<reframeVars, handleVars, taskVars, stream_uris, main,
                   next_session, files, raw_streams, detectVars, viewerVars,
                   session_id, session_streams, attached, config, reopens,
                   onnx_assets>>
    /\ UNCHANGED toolVars

\* the stream directories of `source`, all empty
EmptyStreams(source) == [c \in DOMAIN source |-> <<>>]

\* generate_mask_frames (pipeline.rs:276-392) for session entity e, with
\* the Modnet model loaded. The stream directories are made, then every
\* frame is inferred: `.pop().unwrap()` panics on a failed inference, before
\* any mask is written. The masks are saved with `let _ = buffer.save(..)`:
\* a failed save is dropped and its path is indexed all the same.
GenerateMaskFrames(e) ==
    /\ app = "running"
    /\ main.op = "idle"
    /\ InQuery(e, {"rotated_frames"}, "masks")
    /\ Flag(e, "masks")
    /\ Loaded("modnet")
    /\ LET run_node == ~exists(e, "masks")
           frames == stage_index[e]["rotated_frames"][1]
       IN  IF run_node
           THEN \E inferred \in BOOLEAN :
                \E written \in {d \in Written(frames) :
                                    DOMAIN d = DOMAIN frames} :
                   IF inferred \/ Count(frames) = 0
                   THEN /\ disk' = WithStage(e, "masks", written)
                        /\ tool_calls' = tool_calls + Count(frames)
                        /\ Inserted(e, "masks", frames, TRUE)
                        /\ stage_error' = IF Complete(written, frames)
                                          THEN "none" ELSE "write failed"
                        /\ UNCHANGED app
                   ELSE /\ written = EmptyStreams(frames)
                        /\ disk' = WithStage(e, "masks", written)
                        /\ tool_calls' = tool_calls + 1
                        /\ Panicked
           ELSE /\ Inserted(e, "masks", load_from_session(e, "masks"), FALSE)
                /\ stage_error' = "none"
                /\ UNCHANGED <<disk, tool_calls, app>>
    /\ UNCHANGED <<reframeVars, handleVars, taskVars, stream_uris, main,
                   next_session, files, raw_streams, detectVars, viewerVars,
                   session_id, session_streams, attached, config, reopens,
                   onnx_assets>>
    /\ UNCHANGED toolVars

\* generate_yolo_frames (pipeline.rs:395-502) for session entity e, with
\* the Yolo model loaded. Every frame of RawFrames is inferred, then one
\* json file per frame is written: File::create(..).unwrap() panics on a
\* failure, with the files made so far left behind. The boxes of a frame
\* are named by the frame; the index of a computing run lists them in the
\* order of RawFrames.
GenerateYoloFrames(e) ==
    /\ app = "running"
    /\ main.op = "idle"
    /\ InQuery(e, {"frames"}, "yolo_frames")
    /\ Flag(e, "yolo_frames")
    /\ Loaded("yolo")
    /\ LET run_node == ~exists(e, "yolo_frames")
           raw_frames == stage_index[e]["frames"][1]
       IN  IF run_node
           THEN \E written \in {d \in Written(raw_frames) :
                                    DOMAIN d = DOMAIN raw_frames} :
                   /\ disk' = WithStage(e, "yolo_frames", written)
                   /\ tool_calls' = tool_calls + Count(raw_frames)
                   /\ IF Complete(written, raw_frames)
                      THEN /\ Inserted(e, "yolo_frames", raw_frames, TRUE)
                           /\ stage_error' = "none"
                           /\ UNCHANGED app
                      ELSE Panicked
           ELSE /\ Inserted(e, "yolo_frames",
                            load_from_session(e, "yolo_frames"), FALSE)
                /\ stage_error' = "none"
                /\ UNCHANGED <<disk, tool_calls, app>>
    /\ UNCHANGED <<reframeVars, handleVars, taskVars, stream_uris, main,
                   next_session, files, raw_streams, detectVars, viewerVars,
                   session_id, session_streams, attached, config, reopens,
                   onnx_assets>>
    /\ UNCHANGED toolVars

\* the clips of session directory s (<session>/raw)
Clips(s) == {c \in 0..MaxStreams : <<s, c>> \in files}

\* the application is started again and the session of entity e is taken
\* up from its directory: Session::from_id and RawStreams::load_from_session
\* (pipeline.rs:124-128, 138-152); no stage component is there yet
Reopen(e) ==
    /\ reopens < MaxReopens
    /\ reopens' = reopens + 1
    /\ app' = "running"
    /\ stage_index' = [stage_index EXCEPT ![e] = NoComponents]
    /\ session_streams' \in
          {[session_streams EXCEPT ![e] = q] :
              q \in Listings(Clips(session_id[e]))}
    /\ stage_error' = "none"
    /\ UNCHANGED <<reframeVars, handleVars, taskVars, stream_uris, main,
                   next_session, files, raw_streams, detectVars, viewerVars,
                   session_id, attached, config, disk, first_index,
                   tool_calls, onnx_assets>>
    /\ UNCHANGED toolVars

\* one recorded session: its directory holds the clip of camera 0, its
\* entity has the clip listed and no stage component
PipelineInit ==
    /\ NoBuffer
    /\ NoStreams
    /\ app = "running"
    /\ stream_uris = 1
    /\ main = Idle
    /\ next_session = 1
    /\ files = {<<0, 0>>}
    /\ raw_streams = <<0>>
    /\ NoDetect
    /\ NoViewer
    /\ session_id = <<0>>
    /\ session_streams = <<<<0>>>>
    /\ attached = <<1>>
    /\ config = <<DefaultConfig>>
    /\ onnx_assets = Models
    /\ stage_index = <<NoComponents>>
    /\ disk = <<NewDirectory>>
    /\ first_index = <<NoComponents>>
    /\ tool_calls = 0
    /\ reopens = 0
    /\ stage_error = "none"
    /\ NoTools

\* the four stage runners of PipelinePlugin (pipeline.rs:56-64) and the
\* restart of the application
PipelineNext ==
    \/ \E e \in Entities : GenerateRawFrames(e)
    \/ \E e \in Entities : GenerateRotatedFrames(e)
    \/ \E e \in Entities : GenerateMaskFrames(e)
    \/ \E e \in Entities : GenerateYoloFrames(e)
    \/ \E e \in Entities : Reopen(e)

SpecPipeline == PipelineInit /\ [][PipelineNext]_vars

\* the asset server has loaded an inference model: from then on
\* `onnx_assets.get(..)` returns it (yolo.rs:19-25, pipeline.rs:297, 415)
LoadOnnx(model) ==
    /\ app = "running"
    /\ model \notin onnx_assets
    /\ onnx_assets' = onnx_assets \cup {model}
    /\ UNCHANGED <<reframeVars, handleVars, taskVars, mainVars, detectVars,
                   viewerVars, sessionVars, disk, first_index, tool_calls,
                   reopens, stage_error>>
    /\ UNCHANGED toolVars

\* the configurations of a session: every choice of the four flags
Configs ==
    [raw_frames : BOOLEAN, rotate_raw_frames : BOOLEAN, yolo : BOOLEAN,
     mask_frames : BOOLEAN]

\* one recorded session with the clip of camera 0 and some configuration;
\* no inference model is loaded yet
ConfigInit ==
    /\ NoBuffer
    /\ NoStreams
    /\ app = "running"
    /\ stream_uris = 1
    /\ main = Idle
    /\ next_session = 1
    /\ files = {<<0, 0>>}
    /\ raw_streams = <<0>>
    /\ NoDetect
    /\ NoViewer
    /\ session_id = <<0>>
    /\ session_streams = <<<<0>>>>
    /\ attached = <<1>>
    /\ config \in {<<c>> : c \in Configs}
    /\ onnx_assets = {}
    /\ stage_index = <<NoComponents>>
    /\ disk = <<NewDirectory>>
    /\ first_index = <<NoComponents>>
    /\ tool_calls = 0
    /\ reopens = 0
    /\ stage_error = "none"
    /\ NoTools

\* the stage runners and the loading of the models
ConfigNext ==
    \/ \E e \in Entities : GenerateRawFrames(e)
    \/ \E e \in Entities : GenerateRotatedFrames(e)
    \/ \E e \in Entities : GenerateMaskFrames(e)
    \/ \E e \in Entities : GenerateYoloFrames(e)
    \/ \E model \in Models : LoadOnnx(model)

SpecConfig == ConfigInit /\ [][ConfigNext]_vars

\* the stage runners are systems of the Update schedule
\* (pipeline.rs:56-64): each of them runs in every tick
SpecConfigFair ==
    /\ SpecConfig
    /\ WF_vars(\E e \in Entities : GenerateRawFrames(e))
    /\ WF_vars(\E e \in Entities : GenerateRotatedFrames(e))
    /\ WF_vars(\E e \in Entities : GenerateMaskFrames(e))
    /\ WF_vars(\E e \in Entities : GenerateYoloFrames(e))

\* one recorded session with the clips of two cameras
TwoClipsInit ==
    /\ NoBuffer
    /\ NoStreams
    /\ app = "running"
    /\ stream_uris = 2
    /\ main = Idle
    /\ next_session = 1
    /\ files = {<<0, 0>>, <<0, 1>>}
    /\ raw_streams = <<0, 1>>
    /\ NoDetect
    /\ NoViewer
    /\ session_id = <<0>>
    /\ session_streams = <<<<0, 1>>>>
    /\ attached = <<1>>
    /\ config = <<DefaultConfig>>
    /\ onnx_assets = Models
    /\ stage_index = <<NoComponents>>
    /\ disk = <<NewDirectory>>
    /\ first_index = <<NoComponents>>
    /\ tool_calls = 0
    /\ reopens = 0
    /\ stage_error = "none"
    /\ NoTools

\* the first two stage runners and the restart of the application
TwoClipsNext ==
    \/ \E e \in Entities : GenerateRawFrames(e)
    \/ \E e \in Entities : GenerateRotatedFrames(e)
    \/ \E e \in Entities : Reopen(e)

SpecTwoClips == TwoClipsInit /\ [][TwoClipsNext]_vars

-----------------------------------------------------------------------------
(***************************************************************************)
(* The viewer: automatic_recording of tools/viewer.rs. A tick is one run   *)
(* of the system; its calls of start_recording and stop_recording run to   *)
(* completion within it, so the tick waits while a send would block.       *)
(***************************************************************************)

\* `person_timeout.elapsed_secs() > 3.0` (viewer.rs:344)
Timeout == 3

\* the events that can be pending at once
MaxEvents == 2

\* the durations of a tick, in seconds: a short frame and a long one
TickDurations == {1, 3}

\* a PersonDetectedEvent
SampleEvent ==
    [stream_id |-> MattedStreamId,
     bounding_box |-> [x |-> 0, y |-> 0, width |-> 1, height |-> 1],
     mask_sum |-> 2]

\* the registry positions whose handle has a recording sender
Ready == {i \in Tasks : recording_sender[stream_handles[i]] # <<>>}

\* the task fed by the sender of registry position i
TaskOf(i) == recording_sender[stream_handles[i]][1]

\* no send of start_recording or stop_recording would block
SendsComplete == \A i \in Ready : CanSend(TaskOf(i))

\* the channels after `command` was sent through every sender; command maps
\* a registry position to its command
SentAll(command) ==
    [t \in DOMAIN chan |->
        IF chan[t].open /\ \E i \in Ready : TaskOf(i) = t
        THEN [chan[t] EXCEPT
                !.queue = Append(@, command[CHOOSE i \in Ready : TaskOf(i) = t])]
        ELSE chan[t]]

\* the list stop_recording returns (stream.rs:318-340): the ids of the
\* handles with a sender, in registry order from position i on
RECURSIVE Stopped(_)
Stopped(i) ==
    IF i > Len(stream_handles) THEN <<>>
    ELSE (IF i \in Ready THEN <<handle_id[stream_handles[i]]>> ELSE <<>>)
         \o Stopped(i + 1)

\* start_recording(session) as one step (stream.rs:293-316)
StartRecordingAll(session) ==
    /\ files' = files \cup
                  {<<session, handle_id[stream_handles[i]]>> : i \in Ready}
    /\ chan' = SentAll([i \in Ready |->
                  StartRecordingCmd(<<session, handle_id[stream_handles[i]]>>)])
    /\ UNCHANGED raw_streams

\* stop_recording() as one step (stream.rs:318-340)
StopRecordingAll ==
    /\ chan' = SentAll([i \in Ready |-> StopRecordingCmd])
    /\ raw_streams' = Stopped(1)
    /\ UNCHANGED files

\* a system sends a PersonDetectedEvent
PersonDetected ==
    /\ app = "running"
    /\ Len(ev_person) < MaxEvents
    /\ ev_person' = Append(ev_person, SampleEvent)
    /\ UNCHANGED <<mask, asset_modified, reframeVars, handleVars, taskVars,
                   mainVars, viewerVars, sessionVars, pipelineVars>>
    /\ UNCHANGED toolVars

\* the seconds without an event read, after a tick of delta seconds;
\* Timeout + 1 stands for every longer time
Quiet(delta) ==
    IF ev_person # <<>> THEN 0
    ELSE IF quiet + delta > Timeout THEN Timeout + 1 ELSE quiet + delta

\* a stopwatch that allows one second more
ExpiredLate(elapsed) == elapsed > Timeout + 1

\* `person_timeout.elapsed_secs() > 3.0` (viewer.rs:344)
Expired(elapsed) == elapsed > Timeout

\* a LiveSession that is never seen as live
NeverSome(session) == FALSE

\* `live_session.0.is_some()` (viewer.rs:343)
is_some(session) == session # <<>>

\* automatic_recording (viewer.rs:335-389), one run in a tick of delta
\* seconds. While a session is live: stop after the timeout, then tick the
\* stopwatch and reset it for the events read. Otherwise the first event
\* starts a session and the loop breaks; an event left unread is read in
\* the next tick unless Events::update has dropped it by then.
AutomaticRecording(delta) ==
    /\ app = "running"
    /\ main.op = "idle"
    /\ time_delta' = delta
    /\ quiet' = Quiet(delta)
    /\ IF is_some(live_session)
       THEN LET stop == Expired(person_timeout)
                e == live_session[1]
                ticked == (IF stop THEN 0 ELSE person_timeout) + delta
            IN  /\ IF stop
                   THEN /\ SendsComplete
                        /\ StopRecordingAll
                        /\ live_session' = <<>>
                        /\ session_streams' =
                              [session_streams EXCEPT ![e] = Stopped(1)]
                        /\ attached' = [attached EXCEPT ![e] = @ + 1]
                   ELSE UNCHANGED <<chan, raw_streams, files, live_session,
                                    session_streams, attached>>
                /\ person_timeout' = IF ev_person # <<>> THEN 0 ELSE ticked
                /\ ev_person' = <<>>
                /\ UNCHANGED <<next_session, session_id, config, stage_index,
                               disk,
                               first_index>>
       ELSE IF ev_person # <<>>
       THEN /\ Len(session_id) < MaxLive
            /\ SendsComplete
            /\ StartRecordingAll(next_session)
            /\ next_session' = next_session + 1
            /\ disk' = Append(disk, NewDirectory)
            /\ first_index' = Append(first_index, NoComponents)
            /\ session_id' = Append(session_id, next_session)
            /\ session_streams' = Append(session_streams, <<>>)
            /\ attached' = Append(attached, 0)
            /\ config' = Append(config, DefaultConfig)
            /\ stage_index' = Append(stage_index, NoComponents)
            /\ live_session' = <<Len(session_id) + 1>>
            /\ \E dropped \in BOOLEAN :
                  ev_person' = IF dropped THEN <<>> ELSE Tail(ev_person)
            /\ UNCHANGED person_timeout
       ELSE UNCHANGED <<chan, raw_streams, files, live_session,
                        person_timeout, ev_person, next_session, sessionVars,
                        disk, first_index>>
    /\ UNCHANGED <<reframeVars, handleVars, stream_handles, pc, packets,
                   writer, finished, appended, prev_dims, run_result,
                   stream_uris, app, main,
                   mask, asset_modified, tool_calls, reopens, onnx_assets,
                   stage_error>>
    /\ UNCHANGED toolVars

\* the access units of the camera of the viewer
LiveFrames == {<<0, 0, 0, 1, 127>>}

\* one camera registered, no session yet
ViewerInit == NoBuffer /\ Registered(1) /\ NoExt

\* the camera's run loop, the detection events and the ticks of
\* automatic_recording
ViewerNext ==
    \/ \E r \in Tasks : RunConnect(r)
    \/ \E r \in Tasks : RunPull(r, LiveFrames)
    \/ \E r \in Tasks : RunDecode(r, {})
    \/ PersonDetected
    \/ \E delta \in TickDurations : AutomaticRecording(delta)

SpecViewer == ViewerInit /\ [][ViewerNext]_vars

\* an Option that keeps its value when it is taken
Untaken(session) == session

\* what `live_session.0.take()` leaves in LiveSession (viewer.rs:430)
take(session) == <<>>

\* press_r_start_recording (viewer.rs:395-421) in a frame in which R was
\* just pressed: nothing while a session is live, else a new session is
\* made, start_recording called and the session entity spawned and made
\* live. The stopwatch of automatic_recording is not touched.
PressR ==
    /\ app = "running"
    /\ main.op = "idle"
    /\ IF is_some(live_session)
       THEN UNCHANGED <<chan, raw_streams, files, live_session, next_session,
                        sessionVars, disk, first_index>>
       ELSE /\ Len(session_id) < MaxLive
            /\ SendsComplete
            /\ StartRecordingAll(next_session)
            /\ next_session' = next_session + 1
            /\ disk' = Append(disk, NewDirectory)
            /\ first_index' = Append(first_index, NoComponents)
            /\ session_id' = Append(session_id, next_session)
            /\ session_streams' = Append(session_streams, <<>>)
            /\ attached' = Append(attached, 0)
            /\ config' = Append(config, DefaultConfig)
            /\ stage_index' = Append(stage_index, NoComponents)
            /\ live_session' = <<Len(session_id) + 1>>
    /\ UNCHANGED <<reframeVars, handleVars, stream_handles, pc, packets,
                   writer, finished, appended, prev_dims, run_result,
                   stream_uris, app, main, detectVars, person_timeout,
                   time_delta, quiet, tool_calls, reopens, onnx_assets,
                   stage_error>>
    /\ UNCHANGED toolVars

\* press_s_stop_recording (viewer.rs:423-439) in a frame in which S was
\* just pressed: while a session is live it is taken, stop_recording is
\* called and the list it returns inserted as RawStreams of the entity
PressS ==
    /\ app = "running"
    /\ main.op = "idle"
    /\ IF is_some(live_session)
       THEN LET e == live_session[1]
            IN  /\ SendsComplete
                /\ StopRecordingAll
                /\ live_session' = take(live_session)
                /\ session_streams' =
                      [session_streams EXCEPT ![e] = Stopped(1)]
                /\ attached' = [attached EXCEPT ![e] = @ + 1]
       ELSE UNCHANGED <<chan, raw_streams, files, live_session,
                        session_streams, attached>>
    /\ UNCHANGED <<reframeVars, handleVars, stream_handles, pc, packets,
                   writer, finished, appended, prev_dims, run_result,
                   stream_uris, app, main, next_session, detectVars,
                   person_timeout, time_delta, quiet, session_id, config,
                   stage_index, pipelineVars>>
    /\ UNCHANGED toolVars

\* the viewer with its keys: the run loop of the camera, the detection
\* events and the systems automatic_recording, press_r_start_recording and
\* press_s_stop_recording (viewer.rs:135-143)
KeysNext ==
    \/ \E r \in Tasks : RunConnect(r)
    \/ \E r \in Tasks : RunPull(r, LiveFrames)
    \/ \E r \in Tasks : RunDecode(r, {})
    \/ PersonDetected
    \/ \E delta \in TickDurations : AutomaticRecording(delta)
    \/ PressR
    \/ PressS

SpecKeys == ViewerInit /\ [][KeysNext]_vars

\* the viewer with the raw frames stage of the pipeline plugin, which runs
\* in the same schedule (pipeline.rs:56-64)
LiveNext ==
    \/ \E r \in Tasks : RunConnect(r)
    \/ \E r \in Tasks : RunPull(r, LiveFrames)
    \/ \E r \in Tasks : RunDecode(r, {})
    \/ PersonDetected
    \/ \E delta \in TickDurations : AutomaticRecording(delta)
    \/ \E e \in Entities : GenerateRawFrames(e)

SpecLive == ViewerInit /\ [][LiveNext]_vars

-----------------------------------------------------------------------------
(***************************************************************************)
(* Buffers built from units, for the claims about convert_h264.            *)
(***************************************************************************)

\* the payload lengths a unit of the model can have: those ByteVals can
\* encode in the low length byte and that fit MaxLen
UnitLens == {l \in ByteVals : l + 4 <= MaxLen}

\* a unit: a 4-byte big-endian length and that many payload bytes, paired
\* with what reframing should make of it
UnitPairs ==
    UNION {{<<(<<0, 0, 0, L>> \o p), (<<0, 0, 0, 1>> \o p)>> :
                p \in [1..L -> ByteVals]} : L \in UnitLens}

\* all concatenations of k units, each with its expected output
RECURSIVE UnitSeqs(_)
UnitSeqs(k) ==
    IF k = 0
    THEN {<< <<>>, <<>> >>}
    ELSE {<<(s[1] \o u[1]), (s[2] \o u[2])>> :
            s \in UnitSeqs(k - 1), u \in UnitPairs}

FitSeqs(k) == {s \in UnitSeqs(k) : Len(s[1]) <= MaxLen}

\* buffers of one or more units, with the expected output
ValidPairs == UNION {FitSeqs(k) : k \in 1..(MaxLen \div 4)}

\* buffers of zero or more whole units
WholePairs == ValidPairs \cup {<< <<>>, <<>> >>}

Expected(d) == (CHOOSE s \in ValidPairs : s[1] = d)[2]

IsValid(d) == \E s \in ValidPairs : s[1] = d

(* C7: for every buffer that is a concatenation of one or more (4-byte
   big-endian length L, L payload bytes) units, convert_h264 returns Ok,
   replaces each length field with 00 00 00 01 and leaves the payload bytes
   unchanged. *)
C7_ReframeValid ==
    (result # "pending" /\ IsValid(input)) =>
        /\ result = Ok
        /\ data = Expected(input)

\* a buffer of two units, one of them with a payload byte, has been reframed
C7_Witness ==
    /\ result = Ok
    /\ input = <<0, 0, 0, 1, 127, 0, 0, 0, 0>>
    /\ data = <<0, 0, 0, 1, 127, 0, 0, 0, 1>>

RestFrom(d, b) == SubSeq(d, b + 1, Len(d))

\* the first b bytes of d are whole units and the rest is one incomplete
\* unit: 1 to 3 bytes of a length field, or a length field whose body is cut
IsTruncatedAt(d, b) ==
    /\ b <= Len(d)
    /\ \E s \in WholePairs : s[1] = SubSeq(d, 1, b)
    /\ LET t == RestFrom(d, b)
       IN  \/ Len(t) \in 1..3
           \/ /\ Len(t) >= 4
              /\ from_be_bytes(t[1], t[2], t[3], t[4]) > Len(t) - 4

TruncatedLength(d, b) == IsTruncatedAt(d, b) /\ Len(d) - b < 4
TruncatedBody(d, b) == IsTruncatedAt(d, b) /\ Len(d) - b >= 4

FramingError == {PartialBody, PartialLength}

(* C8: for a buffer whose last unit has a truncated length field (1 to 3
   trailing bytes) or a truncated body, convert_h264 returns a framing error
   and has modified no byte at or after the start of the first incomplete
   unit. *)
C8_TruncatedUntouched ==
    \A b \in 0..MaxLen :
        (result # "pending" /\ IsTruncatedAt(input, b)) =>
            /\ result \in FramingError
            /\ \A k \in (b + 1)..Len(input) : data[k] = input[k]

(* C9: convert_h264 is total: for every byte buffer, the empty buffer and
   buffers of 1 or 2 bytes included, it ends with Ok or a framing error,
   with no underflow in data.len() - 3 and no index out of bounds. *)
C9_Total ==
    result # "pending" => result \in FramingError \cup {Ok}

-----------------------------------------------------------------------------
(***************************************************************************)
(* The claims about the latest-frame slot and the run loop.                *)
(***************************************************************************)

Last(s) == s[Len(s)]

Increasing(s) == \A i, j \in DOMAIN s : i < j => s[i] < s[j]

\* apply_decode delivered a frame of handle h in this step
Delivers(h) == delivered'[h] # delivered[h]

(* C1: under any interleaving of the decode loop and the consumer poll,
   every poll that returns a frame returns the picture most recently
   decoded at that moment, no poll returns a picture older than one already
   delivered, and the slot never holds more than one frame. *)
C1_LatestFrame ==
    /\ [](\A h \in Handles :
            /\ Len(latest_frame[h]) <= 1
            /\ Increasing(delivered[h]))
    /\ [][\A h \in Handles :
            Delivers(h) =>
                /\ Last(delivered'[h]) = decoded[h]
                /\ image'[h].seq = decoded[h]]_vars

\* a slow poll: picture 1 was overwritten by picture 2 before the poll took it
C1_Witness ==
    /\ delivered[1] = <<2>>
    /\ image[1].seq = 2
    /\ latest_frame[1] = <<>>

(* C2: apply_decode never delivers the same decoded picture twice: after a
   poll takes a frame the slot is empty, and a later poll before the next
   decode is a no-op that leaves the destination image unchanged. *)
C2_NoFrameTwice ==
    /\ [](\A h \in Handles :
            \A i, j \in DOMAIN delivered[h] :
                i # j => delivered[h][i] # delivered[h][j])
    /\ [][\A h \in Handles :
            /\ Delivers(h) => latest_frame'[h] = <<>>
            /\ (ApplyDecode /\ latest_frame[h] = <<>>) =>
                    /\ image'[h] = image[h]
                    /\ latest_frame'[h] = <<>>
                    /\ delivered'[h] = delivered[h]]_vars

\* picture 1 has been delivered and the slot is empty: the next poll finds
\* nothing
C2_Witness ==
    /\ delivered[1] = <<1>>
    /\ image[1].seq = 1
    /\ decoded[1] = 1
    /\ latest_frame[1] = <<>>
    /\ app = "running"

(* C6: within one camera session, every decoded picture whose dimensions
   differ from those of the previously decoded picture aborts the session
   and is not published to the latest-frame slot, whether or not the
   consumer has polled between the two pictures. *)
C6_ResolutionChangeAborts ==
    [][\A r \in Tasks :
        LET h == stream_handles[r]
        IN  (/\ decoded'[h] # decoded[h]
             /\ prev_dims[r] # <<>>
             /\ prev_dims'[r] # prev_dims[r]) =>
                /\ pc'[r] \notin {"pull", "decode"}
                /\ latest_frame'[h] = latest_frame[h]]_vars

-----------------------------------------------------------------------------
(***************************************************************************)
(* The claims about the registry, the supervisor and start_recording.      *)
(***************************************************************************)

(* C3: in every reachable state of the capture manager no two registered
   stream handles share a StreamId, over any sequence of create_streams and
   create_streams_from_descriptors ticks and add_stream calls. *)
C3_UniqueIds ==
    \A i, j \in DOMAIN stream_handles :
        i # j => handle_id[stream_handles[i]] # handle_id[stream_handles[j]]

(* C4: add_stream called with a stream whose id is already registered
   registers nothing and spawns no second run loop: the registry is
   unchanged. *)
C4_DuplicateRejected ==
    [][\A h \in Handles :
        (AddStream(h) /\ contains(stream_handles, handle_id[h])) =>
            /\ stream_handles' = stream_handles
            /\ pc' = pc]_vars

\* the errors a run of the run loop can return
RunErrors ==
    {"connection failure", "no video track", "no frame received",
     "framing error", "decode error", "sink write error"}

\* every error that run returns puts the task back at the start of run
ReturnedErrorRestarts ==
    \A r \in Tasks :
        run_result[r] \in RunErrors => pc[r] = Supervise /\ app = "running"

(* C5: whenever a registered camera's run loop ends with an error
   (connection failure, no video track, no frame received, framing error,
   decode error, sink write error) the supervisor starts the run loop again
   at once: no registered camera is ever left without a running loop, and
   the process goes on. *)
C5_Restarted ==
    /\ app = "running"
    /\ ReturnedErrorRestarts
    /\ \A r \in Tasks : pc[r] \in {"connect", "pull", "decode"}

\* the step of start_recording moves on to the next handle, or returns
\* after the last one
NextHandle ==
    IF main.i < Len(stream_handles)
    THEN /\ main'.op = "start_recording"
         /\ main'.i = main.i + 1
         /\ ~main'.sending
    ELSE main'.op = "idle"

(* C10: start_recording, for every registered camera whose command channel
   is ready, creates <session.directory>/raw/<stream_id>.mp4 and sends
   StartRecording carrying that file; for a camera whose channel is not yet
   ready it sends nothing, creates no file and raises no error, and the
   remaining cameras are still processed. *)
C10_StartRecording ==
    [][(main.op = "start_recording" /\ main' # main) =>
        LET h == stream_handles[main.i]
            path == <<main.session, handle_id[h]>>
        IN  /\ app' = "running"
            /\ IF ~main.sending
               THEN IF recording_sender[h] = <<>>
                    THEN /\ files' = files
                         /\ chan' = chan
                         /\ NextHandle
                    ELSE /\ files' = files \cup {path}
                         /\ main'.sending
                         /\ main'.i = main.i
               ELSE LET t == recording_sender[h][1]
                    IN  /\ files' = files
                        /\ path \in files
                        /\ chan[t].open =>
                            chan'[t].queue = <<StartRecordingCmd(path)>>
                        /\ \A u \in Tasks \ {t} : chan'[u] = chan[u]
                        /\ NextHandle]_vars

\* start_recording has returned: the first camera had no sender and was
\* skipped, the second got its file and the command
C10_Witness ==
    /\ main = Idle
    /\ next_session = 1
    /\ recording_sender[1] = <<>>
    /\ files = {<<0, 1>>}
    /\ chan[2].queue = <<StartRecordingCmd(<<0, 1>>)>>

(* C11: the list returned by stop_recording after a start_recording names
   only cameras the preceding start_recording told to record: every entry
   <stream_id>.mp4 is a file that start_recording created for the session,
   and a camera whose channel became ready only after start_recording has no
   entry. *)
C11_StoppedWereStarted ==
    [][(main.op = "stop_recording" /\ main'.op = "idle" /\ next_session > 0) =>
        \A k \in DOMAIN raw_streams' :
            <<next_session - 1, raw_streams'[k]>> \in files]_vars

-----------------------------------------------------------------------------
(***************************************************************************)
(* Session::new and get_next_session_id (pipeline.rs:115-122, 823-837).    *)
(***************************************************************************)

\* the bits of usize in the model; the code has 64
UsizeBits == 2

\* usize::MAX
UsizeMax == 2^UsizeBits - 1

\* the entry names that parse as a usize
Names == 0..UsizeMax

\* what a name is under the root: nothing, a directory, or a file
EntryKinds == {"none", "dir", "file"}

\* Session::new calls the model lets one root see
MaxNew == 3

\* the names get_next_session_id keeps (pipeline.rs:825-832): the entries
\* that are directories and whose name parses
NumericDirs(dir) ==
    IF dir = <<>> THEN {} ELSE {n \in Names : dir[1][n] = "dir"}

\* `max_id + 1` on usize (pipeline.rs:834): a build with overflow checks
\* panics past usize::MAX, a build without wraps around
Successor(max_id, checks) ==
    IF max_id < UsizeMax THEN [status |-> Ok, id |-> max_id + 1]
    ELSE IF checks THEN [status |-> Panic, id |-> 0]
    ELSE [status |-> Ok, id |-> (max_id + 1) % 2^UsizeBits]

\* get_next_session_id (pipeline.rs:823-837): 0 when read_dir fails or
\* yields no numeric directory, else the successor of the largest
get_next_session_id(dir, checks) ==
    IF NumericDirs(dir) = {} THEN [status |-> Ok, id |-> 0]
    ELSE Successor(Max(NumericDirs(dir)), checks)

\* the root after create_dir_all(<root>/<id>) succeeded
WithSession(dir, id) ==
    IF dir = <<>>
    THEN <<[n \in Names |-> IF n = id THEN "dir" ELSE "none"]>>
    ELSE <<[dir[1] EXCEPT ![id] = "dir"]>>

\* Session::new(directory) (pipeline.rs:116-122): the id is chosen, then
\* create_dir_all(..).unwrap() makes the session directory; it fails, and
\* the unwrap panics, when a file has that name
SessionNew ==
    /\ app = "running"
    /\ Len(new_ids) < MaxNew
    /\ LET next == get_next_session_id(root, overflow_checks)
           blocked == root # <<>> /\ root[1][next.id] = "file"
       IN  IF next.status = Panic \/ blocked
           THEN /\ app' = "panicked"
                /\ UNCHANGED <<root, new_ids>>
           ELSE /\ root' = WithSession(root, next.id)
                /\ new_ids' = Append(new_ids, next.id)
                /\ UNCHANGED app
    /\ UNCHANGED <<reframeVars, handleVars, taskVars, stream_uris, main,
                   next_session, files, raw_streams, detectVars, viewerVars,
                   sessionVars, pipelineVars, grid, found, pixels,
                   partial, extrema>>

\* the roots a first call can find: none, or any mix of entries
Roots == {<<>>} \cup {<<d>> : d \in [Names -> EntryKinds]}

SessionInit ==
    /\ NoBuffer
    /\ NoStreams
    /\ MainIdle
    /\ NoDetect
    /\ NoViewer
    /\ NoSessions
    /\ root \in Roots
    /\ new_ids = <<>>
    /\ grid = <<>> /\ found = NotCalled /\ pixels = <<>> /\ partial = <<>>
    /\ extrema = {}

SessionNext == SessionNew

SpecSession == SessionInit /\ [][SessionNext]_vars

-----------------------------------------------------------------------------
(***************************************************************************)
(* calculate_grid_dimensions (grid_view.rs:111-145, viewer.rs:442-472).    *)
(* An f32 is a fraction <<numerator, denominator>> of naturals: a zero     *)
(* denominator is +infinity, or NaN when the numerator is zero as well.    *)
(***************************************************************************)

\* the largest num_streams the model lays out
MaxCells == 5

\* the window widths and heights, in pixels
WindowSizes == {0, 9, 16, 32}

Real(n) == <<n, 1>>

Infinity == <<1, 0>>

NaN == <<0, 0>>

IsNaN(p) == p = NaN

RECURSIVE Gcd(_, _)
Gcd(a, b) == IF b = 0 THEN a ELSE Gcd(b, a % b)

\* the fraction in lowest terms
Lowest(p) ==
    IF p[1] = 0 /\ p[2] = 0 THEN NaN
    ELSE <<p[1] \div Gcd(p[1], p[2]), p[2] \div Gcd(p[1], p[2])>>

\* p / q
Quot(p, q) ==
    IF IsNaN(p) \/ IsNaN(q) THEN NaN
    ELSE Lowest(<<p[1] * q[2], p[2] * q[1]>>)

\* p * q
Prod(p, q) ==
    IF IsNaN(p) \/ IsNaN(q) THEN NaN
    ELSE Lowest(<<p[1] * q[1], p[2] * q[2]>>)

\* p > q; false when either is NaN
Greater(p, q) ==
    /\ ~IsNaN(p) /\ ~IsNaN(q)
    /\ ~(p[2] = 0 /\ q[2] = 0)
    /\ p[1] * q[2] > q[1] * p[2]

\* (p - q).abs()
AbsDiff(p, q) ==
    IF IsNaN(p) \/ IsNaN(q) \/ (p[2] = 0 /\ q[2] = 0) THEN NaN
    ELSE IF p[1] * q[2] >= q[1] * p[2]
         THEN Lowest(<<p[1] * q[2] - q[1] * p[2], p[2] * q[2]>>)
         ELSE Lowest(<<q[1] * p[2] - p[1] * q[2], p[2] * q[2]>>)

\* the quotient rounded down
Floor(p) == p[1] \div p[2]

\* `.ceil() as usize` of a finite quotient
Ceil(p) == IF p[1] % p[2] = 0 THEN p[1] \div p[2] ELSE p[1] \div p[2] + 1

\* 16.0 / 9.0
stream_aspect_ratio == <<16, 9>>

\* the body of `for columns in 1..=num_streams`, from `columns` on; best
\* holds best_layout, best_diff and best_sprite_size
RECURSIVE BestLayout(_, _, _, _, _)
BestLayout(window_width, window_height, num_streams, columns, best) ==
    IF columns > num_streams THEN best
    ELSE
    LET window_aspect_ratio == Quot(window_width, window_height)
        rows == Ceil(Quot(Real(num_streams), Real(columns)))
        sprite_width == Quot(window_width, Real(columns))
        sprite_height == Quot(sprite_width, stream_aspect_ratio)
        total_height_needed == Prod(sprite_height, Real(rows))
        adjusted_sprite_height == Quot(window_height, Real(rows))
        adjusted_sprite_width ==
            Prod(adjusted_sprite_height, stream_aspect_ratio)
        final == IF Greater(total_height_needed, window_height)
                 THEN <<adjusted_sprite_width, adjusted_sprite_height>>
                 ELSE <<sprite_width, sprite_height>>
        grid_aspect_ratio ==
            Quot(Prod(final[1], Real(columns)), Prod(final[2], Real(rows)))
        diff == AbsDiff(window_aspect_ratio, grid_aspect_ratio)
    IN  BestLayout(window_width, window_height, num_streams, columns + 1,
                   IF Greater(best.diff, diff)
                   THEN [layout |-> <<columns, rows>>, diff |-> diff,
                         sprite_size |-> final]
                   ELSE best)

\* calculate_grid_dimensions(window_width, window_height, num_streams)
calculate_grid_dimensions(window_width, window_height, num_streams) ==
    LET best == BestLayout(Real(window_width), Real(window_height),
                           num_streams, 1,
                           [layout |-> <<1, num_streams>>,
                            diff |-> Infinity,
                            sprite_size |-> <<Real(0), Real(0)>>])
    IN  [columns |-> best.layout[1], rows |-> best.layout[2],
         sprite_size |-> best.sprite_size]

\* draw_grid_view lays the grid out for the window and its elements
\* (grid_view.rs:55-64; viewer.rs:164-175 does the same for the streams)
DrawGridView(width, height, num_streams) ==
    /\ app = "running"
    /\ grid' = <<[window_width |-> width, window_height |-> height,
                  num_streams |-> num_streams,
                  result |-> calculate_grid_dimensions(width, height,
                                                       num_streams)]>>
    /\ UNCHANGED <<reframeVars, handleVars, taskVars, mainVars, detectVars,
                   viewerVars, sessionVars, pipelineVars, root, new_ids,
                   found, pixels, partial, extrema>>

GridInit == NoBuffer /\ NoStreams /\ MainIdle /\ NoExt

GridNext ==
    \E width \in WindowSizes, height \in WindowSizes,
       num_streams \in 0..MaxCells :
        DrawGridView(width, height, num_streams)

SpecGrid == GridInit /\ [][GridNext]_vars

-----------------------------------------------------------------------------
(***************************************************************************)
(* The claims about the viewer and the pipeline.                           *)
(***************************************************************************)

(* C15: when the mask image of a person-detection stream is modified and
   its coverage ratio (sum of normalized intensities over pixel count)
   exceeds 0.14, detect_person emits a PersonDetectedEvent for that stream
   with the bounding box and the raw sum; at a ratio of at most 0.14 it
   emits none. *)
C15_DetectsAboveThreshold ==
    [][(asset_modified /\ ~asset_modified') =>
        IF sum_masked_pixels(mask) > 14 * Len(mask) * (One \div 100)
        THEN ev_person' =
                Append(ev_person,
                       [stream_id |-> MattedStreamId,
                        bounding_box |-> masked_bounding_box(mask)[1],
                        mask_sum |-> sum_masked_pixels(mask)])
        ELSE ev_person' = ev_person]_vars

\* a run of automatic_recording
Tick == \E delta \in TickDurations : AutomaticRecording(delta)

\* a run of automatic_recording that reads events while a session is live
ReadsWhileLive == live_session # <<>> /\ ev_person # <<>> /\ ev_person' = <<>>

(* C12: while an automatic recording session is open, a run of
   automatic_recording that reads a detection event less than 3 seconds
   after the previous event was read never stops the recording, whatever
   the tick durations. *)
C12_EventsKeepOpen ==
    [][(ReadsWhileLive /\ quiet + time_delta' < Timeout) =>
        live_session' # <<>>]_vars

\* the recording of the live session is stopped and the list that
\* stop_recording returned is attached to its entity
StopsAndAttaches ==
    LET e == live_session[1]
    IN  /\ live_session' = <<>>
        /\ raw_streams' = Stopped(1)
        /\ session_streams' = [session_streams EXCEPT ![e] = raw_streams']
        /\ attached[e] = 0
        /\ attached' = [attached EXCEPT ![e] = 1]

(* C13 as stated: while a recording session is open, a gap of 3 or more
   seconds without a detection event stops the recording and attaches the
   raw file list, also when an event ends the gap. *)
C13_GapStops ==
    [][(ReadsWhileLive /\ quiet + time_delta' >= Timeout) =>
        StopsAndAttaches]_vars

(* C13, amended: while a recording session is open, a run of
   automatic_recording that finds more than 3 seconds of ticks passed since
   an event was last read stops the recording and attaches the list
   returned by stop_recording to the session entity; the recording is
   stopped by nothing else, and the list is attached once per session. *)
C13_TimeoutStops ==
    /\ [](\A e \in Entities : attached[e] <= 1)
    /\ [][(live_session # <<>> /\ quiet > Timeout /\ Tick) =>
            StopsAndAttaches]_vars
    /\ [][(live_session # <<>> /\ live_session' # live_session) =>
            (Expired(person_timeout) /\ StopsAndAttaches)]_vars
    /\ [][\A e \in Entities :
            (e \in DOMAIN attached' /\ attached'[e] # attached[e]) =>
                live_session = <<e>>]_vars

\* the first session was stopped by the timeout and got the clip of the
\* camera attached
C13_Witness ==
    /\ Len(session_id) = 1
    /\ live_session = <<>>
    /\ attached = <<1>>
    /\ session_streams = <<<<0>>>>
    /\ raw_streams = <<0>>

(* C14: when no recording is active, a run of automatic_recording that
   finds detection events pending creates exactly one Session, calls
   start_recording once and makes the session live, however many events are
   pending; while a session is live no run starts another. *)
C14_OneSession ==
    /\ [][(live_session = <<>> /\ ev_person # <<>> /\ Tick) =>
            /\ next_session' = next_session + 1
            /\ session_id' = Append(session_id, next_session)
            /\ live_session' = <<Len(session_id')>>
            /\ files' = files \cup
                  {<<next_session, handle_id[stream_handles[i]]>> : i \in Ready}
            /\ \A i \in Ready :
                  chan[TaskOf(i)].open =>
                      chan'[TaskOf(i)].queue =
                          <<StartRecordingCmd(
                              <<next_session, handle_id[stream_handles[i]]>>)>>
            /\ attached'[Len(session_id')] = 0]_vars
    /\ [][(live_session # <<>> \/ ev_person = <<>>) =>
            /\ session_id' = session_id
            /\ next_session' = next_session]_vars

\* a session was started from two pending events: one is still unread, the
\* camera has its command and its file
C14_Witness ==
    /\ live_session = <<1>>
    /\ session_id = <<0>>
    /\ next_session = 1
    /\ ev_person = <<SampleEvent>>
    /\ quiet = 0
    /\ files = {<<0, 0>>}
    /\ chan[1].queue = <<StartRecordingCmd(<<0, 0>>)>>

(* C16: for a session recorded live, the RawFrames stage produces its
   output only after the raw file list was attached: RawFrames is never
   made from the empty placeholder list of a recording in progress. *)
C16_FramesAfterAttach ==
    \A e \in Entities :
        stage_index[e]["frames"] # <<>> =>
            /\ attached[e] >= 1
            /\ DOMAIN stage_index[e]["frames"][1] = Range(session_streams[e])

(* C17: a stage runner run a second time against the same unmodified
   session directory yields an index equal to the one of the first,
   computing run: the same StreamId keys and per stream the same artifacts
   in the same order, for every order in which the directory lists them. *)
C17_SameIndex ==
    \A e \in Entities : \A st \in Stages :
        LET first == first_index[session_id[e] + 1][st]
        IN  (stage_index[e][st] # <<>> /\ first # <<>>) =>
                stage_index[e][st] = first

\* entity e gets the component of stage st in this step
Attaches(e, st) == stage_index[e][st] = <<>> /\ stage_index'[e][st] # <<>>

(* C18: when the output directory of a stage already exists when its runner
   executes, the runner invokes no extraction, rotation or inference,
   creates or modifies no file, and builds its index from what the
   directory lists alone. *)
C18_ResumeReadsOnly ==
    [][\A e \in Entities : \A st \in Stages :
        (Attaches(e, st) /\ Dir(e)[st] # <<>>) =>
            /\ tool_calls' = tool_calls
            /\ disk' = disk
            /\ files' = files
            /\ stage_index'[e][st] = Dir(e)[st]
            /\ app' = "running"]_vars

\* after a restart the rotated frames were loaded from the directory of the
\* first run: both frames of the clip, and no tool was run again
C18_Witness ==
    /\ reopens = 1
    /\ app = "running"
    /\ stage_index[1]["rotated_frames"] # <<>>
    /\ Frames(stage_index[1]["rotated_frames"][1], 0) = FrameNames
    /\ tool_calls = 1 + MaxFrames

\* the index the stage st of entity e is computed from
Source(e, st) ==
    IF st = "frames" THEN [c \in Range(session_streams[e]) |-> <<>>]
    ELSE IF st = "masks" THEN stage_index[e]["rotated_frames"][1]
    ELSE stage_index[e]["frames"][1]

(* C19: when a stage run was interrupted after its output directory was
   created and before all expected artifacts were written, the next run of
   the stage does not resume from the partial directory: the output it
   attaches has every artifact its input calls for. *)
C19_PartialNotResumed ==
    [][\A e \in Entities : \A st \in Stages \ {"frames"} :
        (Attaches(e, st) /\ Dir(e)[st] # <<>>
            /\ ~Complete(Dir(e)[st][1], Source(e, st))) =>
                Complete(stage_index'[e][st][1], Source(e, st))]_vars

(* C20: when the extraction tool fails for a clip, an inference fails for a
   frame or the write of an artifact fails, the stage is aborted for the
   session: its stage output is not attached. *)
C20_FailureAborts ==
    [][\A e \in Entities : \A st \in Stages :
        Attaches(e, st) => stage_error' = "none"]_vars

(* C21: after a stage runner completes for a session, computing or
   resuming, the StreamIds of its output index are the StreamIds of the
   index of its input stage (the recorded clips for RawFrames, RawFrames
   for RotatedFrames and YoloFrames, RotatedFrames for MaskFrames). *)
C21_SameStreams ==
    [][\A e \in Entities : \A st \in Stages :
        Attaches(e, st) =>
            DOMAIN stage_index'[e][st][1] = DOMAIN Source(e, st)]_vars

\* the frame numbers of sequence q rise from one position to the next
Ascending(q) == \A j, k \in DOMAIN q : j < k => q[j] < q[k]

(* C22: in every stage output index the artifacts of each stream are
   ordered ascending by the frame number of the file name, so that
   position k of a stream means the same frame in every stage. *)
C22_AscendingFrames ==
    \A e \in Entities : \A st \in Stages :
        stage_index[e][st] # <<>> =>
            \A c \in DOMAIN stage_index[e][st][1] :
                Ascending(stage_index[e][st][1][c])

(* C23: the main thread never blocks on a camera task: while
   start_recording or stop_recording is at a send, the send can complete
   without the camera's run loop taking a step, also when the channel
   still holds a command the camera has not drained. *)
C23_SendNeverWaits ==
    (main.op \in {"start_recording", "stop_recording"} /\ main.sending) =>
        CanSend(recording_sender[stream_handles[main.i]][1])

(* C24: a failure inside the task of one camera, the abort on a changed
   resolution while the latest-frame mutex is held included, does not make
   the poll of the consumer (apply_decode) fail: the application keeps
   running after a camera task has panicked. *)
C24_FailureIsolated ==
    (\E r \in Tasks : pc[r] = "panicked") => app = "running"

(* C25: recording never interrupts decoding: a failure to open, append to
   or finalize the recording sink does not end the run loop, so no run
   returns with a sink error. *)
C25_SinkFailureKeepsRun ==
    \A r \in Tasks : run_result[r] # "sink write error"

(* C30: the recording channel of a camera holds at most one command that
   the run loop has not taken; a send completes at once into an empty
   channel and waits only while the command sent before is still there. *)
C30_DepthOne ==
    \A t \in DOMAIN chan :
        /\ Len(chan[t].queue) <= 1
        /\ ~chan[t].open => chan[t].queue = <<>>

\* stop_recording waits at its send: the StartRecording command sent
\* before is still in the channel of the camera
C30_Witness ==
    /\ main.op = "stop_recording"
    /\ main.sending
    /\ LET t == recording_sender[stream_handles[main.i]][1]
       IN  /\ chan[t].open
           /\ Len(chan[t].queue) = 1
           /\ chan[t].queue[1].cmd = "StartRecording"

(* C26: Session::new assigns id = 1 + the largest numeric subdirectory
   name under the root, or 0 when there is none or no root, and creates
   <root>/<id>; so the ids of successive calls on a root rise strictly and
   no call reuses a session directory that exists. *)
C26_NextSessionId ==
    [][(new_ids' # new_ids \/ app' # app) =>
        LET before == NumericDirs(root)
            id == new_ids'[Len(new_ids')]
        IN  /\ app' = "running"
            /\ new_ids' = Append(new_ids, id)
            /\ id = IF before = {} THEN 0 ELSE Max(before) + 1
            /\ id \notin before
            /\ NumericDirs(root') = before \cup {id}
            /\ \A k \in DOMAIN new_ids : new_ids[k] < id]_vars

(* C28: for every num_streams >= 1 and every window size,
   calculate_grid_dimensions returns columns >= 1 with
   columns * rows >= num_streams and columns * (rows - 1) < num_streams;
   for one stream the layout is 1 x 1. *)
C28_GridCovers ==
    (grid # <<>> /\ grid[1].num_streams >= 1) =>
        LET n == grid[1].num_streams
            columns == grid[1].result.columns
            rows == grid[1].result.rows
        IN  /\ columns >= 1
            /\ columns * rows >= n
            /\ columns * (rows - 1) < n
            /\ n = 1 => columns = 1 /\ rows = 1

\* five streams in a 32 x 9 window: a layout whose last row is not full
C28_Witness ==
    /\ grid # <<>>
    /\ grid[1].num_streams = 5
    /\ grid[1].window_width = 32 /\ grid[1].window_height = 9
    /\ grid[1].result.columns * grid[1].result.rows > 5
    /\ grid[1].result.rows > 1

\* the pixels of the rectangle with corners (x0, y0) and (x1, y1)
Rectangle(x0, y0, x1, y1) ==
    {k \in 1..(MaskWidth * MaskHeight) :
        /\ x0 <= PixelX(k) /\ PixelX(k) <= x1
        /\ y0 <= PixelY(k) /\ PixelY(k) <= y1}

(* C27: for a single-channel image in which exactly the pixels of one
   axis-aligned rectangle are above the threshold (> 128),
   masked_bounding_box returns that rectangle (x, y, width, height); for an
   image with no pixel above the threshold it returns None. *)
C27_BoxOfRectangle ==
    found.called =>
        LET above == {k \in DOMAIN mask : mask[k] > 128}
        IN  /\ above = {} => found.box = <<>>
            /\ \A x0, x1 \in 0..(MaskWidth - 1) :
               \A y0, y1 \in 0..(MaskHeight - 1) :
                  (x0 <= x1 /\ y0 <= y1
                      /\ above = Rectangle(x0, y0, x1, y1)) =>
                     found.box = <<[x |-> x0, y |-> y0,
                                    width |-> x1 - x0 + 1,
                                    height |-> y1 - y0 + 1]>>

\* a 2 x 2 rectangle at (1, 0) above the threshold, the other pixels at the
\* threshold: the call returned the rectangle
C27_Witness ==
    /\ found.called
    /\ \A k \in DOMAIN mask :
          mask[k] = IF k \in Rectangle(1, 0, 2, 1) THEN 255 ELSE 128
    /\ found.box = <<[x |-> 1, y |-> 0, width |-> 2, height |-> 2]>>

\* n / 255 as an f32, for the sum n of the pixels of an image
RECURSIVE Total(_, _)
Total(img, k) == IF k > Len(img) THEN 0 ELSE img[k] + Total(img, k + 1)

\* the reduction of sum_masked_pixels has come to its result
Summed == Len(partial) = 1

(* C29 as stated: sum_masked_pixels returns the sum over all pixels of
   intensity / 255 whatever the order of the parallel reduction: the f32
   nearest to (sum of the pixels) / 255, and for the pixels 255, 127 and
   63 the f32 (255 + 127 + 63) / 255. *)
C29_ExactSum ==
    Summed => partial[1] = Over255(Total(pixels, 1))

\* (sum of the pixels) / 255 in units of 2^-26, rounded down
ExactSum(img) ==
    LET n == Total(img, 1)
        four == One \div Mantissa
    IN  four * n * ((Mantissa - 1) \div 255) + (four * n) \div 255

\* |a - b|
Distance(a, b) == IF a >= b THEN a - b ELSE b - a

(* C29, amended: in every order of the parallel reduction
   sum_masked_pixels returns the sum over all pixels of intensity / 255
   within the relative tolerance 1e-5. *)
C29_SumWithinTolerance ==
    Summed =>
        Distance(partial[1], ExactSum(pixels))
            <= ExactSum(pixels) \div 100000 + 1

\* the pixels 255, 127 and 63 are summed, and the result is not the f32
\* nearest to (255 + 127 + 63) / 255
C29_Witness ==
    /\ pixels = <<255, 127, 63>>
    /\ Summed
    /\ partial[1] # Over255(255 + 127 + 63)

-----------------------------------------------------------------------------
(***************************************************************************)
(* The claims about the recording sink of a camera.                        *)
(***************************************************************************)

\* the step is one of the task r itself, not of the main thread
TaskStep(r) ==
    \/ <<pc[r], packets[r], writer[r], finished[r], appended[r],
         run_result[r]>>'
          # <<pc[r], packets[r], writer[r], finished[r], appended[r],
              run_result[r]>>
    \/ chan'[r].open # chan[r].open
    \/ Len(chan'[r].queue) < Len(chan[r].queue)

\* the step is an iteration of run in which task r pulled an access unit
Pulled(r) ==
    /\ pc[r] = "pull"
    /\ TaskStep(r)
    /\ run_result'[r] # "no frame received"

\* the step is an iteration of run in which task r applies a command
Applied(r) == Pulled(r) /\ chan[r].queue # <<>>

\* no camera has two sinks, no two cameras share one, and the active sink
\* of a camera is not finished
OneSink ==
    \A r \in Tasks :
        /\ Len(writer[r]) <= 1
        /\ writer[r] # <<>> =>
              /\ writer[r][1] \notin finished[r]
              /\ \A t \in Tasks \ {r} : writer[t] # writer[r]

(* C31: a camera has at most one active recording sink at any time:
   applying StartRecording while a sink is active finishes the prior sink
   before the new one becomes active, applying StopRecording finishes the
   sink and leaves none active, and StopRecording with no active sink
   changes nothing. *)
C31_OneActiveSink ==
    /\ []OneSink
    /\ [][\A r \in Tasks :
            /\ Applied(r) =>
                 LET command == Head(chan[r].queue)
                 IN  /\ writer[r] # <<>> => writer[r][1] \in finished'[r]
                     /\ command.cmd = "StartRecording" =>
                           writer'[r] \in {<<>>, <<command.file>>}
                     /\ command.cmd = "StopRecording" => writer'[r] = <<>>
                     /\ command.cmd = "StopRecording" /\ writer[r] = <<>> =>
                           finished'[r] = finished[r]
            /\ ~Applied(r) => finished'[r] = finished[r]
       ]_vars

\* the camera writes the sink of the second session after a StartRecording,
\* and the sink of the first one is finished
C31_Witness ==
    \E r \in Tasks :
        /\ writer[r] = << <<1, handle_id[stream_handles[r]]>> >>
        /\ finished[r] = { <<0, handle_id[stream_handles[r]]>> }

(* C32 as stated: an access unit is appended to a camera's sink if and only
   if a sink is active after the command check of the iteration that pulled
   it. *)
C32_AppendedIffActive ==
    [][\A r \in Tasks : Pulled(r) => (appended'[r] <=> writer'[r] # <<>>)]_vars

(* C32, amended: an access unit is appended to a camera's sink if and only
   if a sink is active after the command check of the iteration that pulled
   it and the write to the sink succeeds, at most once and by that
   iteration. The sink is active from the iteration that applies
   StartRecording and opens it up to, but excluding, the iteration that
   applies StopRecording, so that no unit is appended in or after that
   iteration. *)
C32_AppendedIffWritten ==
    [][\A r \in Tasks :
        /\ Pulled(r) =>
              (appended'[r] <=>
                  writer'[r] # <<>> /\ run_result'[r] # "sink write error")
        /\ ~Pulled(r) => appended'[r] = appended[r]
        /\ ~Applied(r) => writer'[r] = writer[r]
        /\ Applied(r) /\ Head(chan[r].queue).cmd = "StopRecording" =>
              ~appended'[r]
      ]_vars

\* a camera has written an access unit to its sink and is decoding it
C32_Witness ==
    \E r \in Tasks : appended[r] /\ writer[r] # <<>> /\ pc[r] = "decode"

(* C33: every recording command that start_recording or stop_recording
   sends to a camera with a ready channel is eventually applied by the run
   loop of that camera, also when the run loop fails and is restarted
   between the send and the next command check: a command leaves the
   channel only in an iteration that applies it. *)
C33_CommandApplied ==
    [][\A r \in Tasks :
        chan[r].queue # <<>> /\ chan'[r].queue = <<>> => Applied(r)]_vars

-----------------------------------------------------------------------------
(***************************************************************************)
(* The claims about the order and the configuration of the stages.         *)
(***************************************************************************)

\* the step runs the stage st for entity e: it writes the stage directory
\* or attaches the stage component
Ran(e, st) ==
    /\ reopens' = reopens
    /\ \/ stage_index'[e][st] # stage_index[e][st]
       \/ disk'[session_id[e] + 1][st] # disk[session_id[e] + 1][st]

(* C34: for each session the stages run in the fixed order and at most
   once: RotatedFrames and YoloFrames are produced only after the RawFrames
   output of the session is attached, MaskFrames only after RotatedFrames is
   attached, and a stage whose output component is already attached to the
   session is never run again for it. *)
C34_StageOrder ==
    [][\A e \in Entities : \A st \in Stages :
        Ran(e, st) =>
            /\ stage_index[e][st] = <<>>
            /\ st \in {"rotated_frames", "yolo_frames"} =>
                  stage_index[e]["frames"] # <<>>
            /\ st = "masks" => stage_index[e]["rotated_frames"] # <<>>
            /\ disk'[session_id[e] + 1][st] # disk[session_id[e] + 1][st] =>
                  disk[session_id[e] + 1][st] = <<>>
      ]_vars

\* every stage has run for the session
C34_Witness ==
    /\ Models \subseteq onnx_assets
    /\ \A st \in Stages : stage_index[1][st] # <<>> /\ disk[1][st] # <<>>

\* the session has the flag of stage st set
Set(st) ==
    CASE st = "frames" -> config[1].raw_frames
      [] st = "rotated_frames" -> config[1].rotate_raw_frames
      [] st = "masks" -> config[1].mask_frames
      [] st = "yolo_frames" -> config[1].yolo

\* the stages whose output the runner of stage st reads, directly or not
Upstream(st) ==
    CASE st = "frames" -> {}
      [] st = "rotated_frames" -> {"frames"}
      [] st = "masks" -> {"frames", "rotated_frames"}
      [] st = "yolo_frames" -> {"frames"}

\* the inference model of stage st is loaded, if it has one
ModelLoaded(st) ==
    CASE st = "masks" -> "modnet" \in onnx_assets
      [] st = "yolo_frames" -> "yolo" \in onnx_assets
      [] OTHER -> TRUE

\* the output of stage st is attached to the session, or a runner has
\* panicked
Done(st) == stage_index[1][st] # <<>> \/ app = "panicked"

\* a stage whose flag is false has no directory and no component
OffStaysOff ==
    \A st \in Stages : ~Set(st) => stage_index[1][st] = <<>> /\ disk[1][st] = <<>>

(* C35 as stated: a stage runner produces output for a session if and only
   if the flag of the stage is true: a stage whose flag is false never
   creates its directory or attaches its output, and a stage whose flag is
   true eventually runs once its inference model is loaded, independently of
   the flags of the other stages. *)
C35_FlagDecides ==
    /\ []OffStaysOff
    /\ \A st \in Stages : (Set(st) /\ ModelLoaded(st)) ~> Done(st)

(* C35, amended: a stage whose flag is false never creates its directory or
   attaches its output, and a stage whose flag is true eventually runs once
   its inference model is loaded, provided the flags of the stages it reads
   from are true as well and no runner panics. *)
C35_FlagsUpstreamDecide ==
    /\ []OffStaysOff
    /\ \A st \in Stages :
          (Set(st) /\ ModelLoaded(st) /\ \A up \in Upstream(st) : Set(up))
              ~> Done(st)

\* the mask stage is switched off and the three other stages have run
C35_Witness ==
    /\ ~config[1].mask_frames
    /\ app = "running"
    /\ \A st \in Stages \ {"masks"} : stage_index[1][st] # <<>>
    /\ disk[1]["masks"] = <<>>

(* C36: every BoundingBox returned by masked_bounding_box has width > 0 and
   height > 0, lies entirely inside the image (0 <= x, 0 <= y,
   x + width <= image width, y + height <= image height), contains every
   pixel above the threshold, and is the same for every order in which the
   parallel min/max reduction combines the pixels. *)
C36_BoxInvariants ==
    (found.called /\ found.box # <<>>) =>
        LET box == found.box[1]
        IN  /\ box.width > 0 /\ box.height > 0
            /\ 0 <= box.x /\ 0 <= box.y
            /\ box.x + box.width <= MaskWidth
            /\ box.y + box.height <= MaskHeight
            /\ \A k \in DOMAIN mask :
                  mask[k] > 128 =>
                     /\ box.x <= PixelX(k) /\ PixelX(k) < box.x + box.width
                     /\ box.y <= PixelY(k) /\ PixelY(k) < box.y + box.height
            /\ found.box = masked_bounding_box(mask)

\* the two pixels at opposite corners are above the threshold and the box
\* returned is the whole image
C36_Witness ==
    /\ found.called
    /\ {k \in DOMAIN mask : mask[k] > 128} = {1, MaskWidth * MaskHeight}
    /\ found.box = <<[x |-> 0, y |-> 0, width |-> MaskWidth,
                      height |-> MaskHeight]>>

\* ------------------------------------------------------------------------
\* claims about the live session of the viewer
\* ------------------------------------------------------------------------

\* a step in which start_recording is called: it takes the next session id
StartCalled == next_session' # next_session

\* a step in which the list returned by stop_recording is inserted as
\* RawStreams of session entity e
StopAttached(e) == e \in DOMAIN attached /\ attached'[e] # attached[e]

\* a step that sends StopRecording to a camera
StopSent ==
    \E r \in Tasks :
        /\ Len(chan'[r].queue) > Len(chan[r].queue)
        /\ chan'[r].queue[Len(chan'[r].queue)] = StopRecordingCmd

(* C37: at most one recording session is live at any time, whichever of
   automatic_recording, press_r_start_recording and press_s_stop_recording
   run and in whatever order: start_recording is never called while a
   session is live and makes the new session entity the live one,
   stop_recording is never called when no session is live, and RawStreams
   is attached to each session entity by at most one stop, the stop of
   that entity while it is the live session. *)
C37_OneLiveSession ==
    /\ [](/\ Len(live_session) <= 1
          /\ \A e \in DOMAIN attached : attached[e] <= 1
          /\ live_session # <<>> =>
                /\ live_session[1] \in DOMAIN attached
                /\ attached[live_session[1]] = 0)
    /\ [][StartCalled =>
            /\ live_session = <<>>
            /\ Len(session_id') = Len(session_id) + 1
            /\ live_session' = <<Len(session_id')>>]_vars
    /\ [][StopSent => (live_session # <<>> /\ live_session' = <<>>)]_vars
    /\ [][\A e \in Entities :
            StopAttached(e) =>
                (live_session = <<e>> /\ live_session' = <<>>)]_vars

\* two sessions were started and stopped, the first by the S key while
\* the stopwatch stood at 2 seconds, which no automatic stop leaves
C37_Witness ==
    /\ Len(session_id) = 2
    /\ attached = <<1, 1>>
    /\ live_session = <<>>
    /\ person_timeout = 2

\* a run of automatic_recording that reads a detection event
ReadsEvent == Tick /\ ev_person # <<>> /\ ev_person' # ev_person

(* C38: every live session, started by the R key or by a detection event,
   is stopped by automatic_recording at the first tick that finds the idle
   stopwatch above 3 seconds; the stopwatch advances only while a session
   is live, is reset by each detection event that automatic_recording reads
   and by an automatic stop, and is left as it is when a key starts or
   stops a session. *)
C38_StopwatchRules ==
    /\ [][(live_session # <<>> /\ Expired(person_timeout) /\ Tick) =>
            live_session' = <<>>]_vars
    /\ [][(live_session # <<>> /\ live_session' = <<>> /\ Tick) =>
            (Expired(person_timeout) /\ person_timeout' \in {0, time_delta'})]_vars
    /\ [][person_timeout' > person_timeout => live_session # <<>>]_vars
    /\ [][(PressR \/ PressS) => person_timeout' = person_timeout]_vars
    /\ [][ReadsEvent => person_timeout' = 0]_vars

\* ------------------------------------------------------------------------
\* claims about the mutexes of the manager
\* ------------------------------------------------------------------------

\* the task whose channel the send in progress goes to
SendTarget == recording_sender[stream_handles[main.i]][1]

\* the thread in start_recording or stop_recording waits in its send: it
\* holds the registry mutex and the sender mutex of the handle
SendWaits == RegistryLocked /\ main.sending /\ ~CanSend(SendTarget)

\* task r waits for the sender mutex of its handle (stream.rs:372)
LockWaits(r) == pc[r] = "connect" /\ SenderLocked(stream_handles[r])

(* C39: start_recording and stop_recording always return, if every run
   loop keeps pulling access units or fails: a send that waits for room
   waits for a run loop that is pulling and holds no mutex, a run loop that
   waits for the sender mutex has dropped its receiver so that the send
   which holds the mutex fails at once, and contains and add_stream hold
   the registry mutex for one statement only. *)
C39_CallsTerminate ==
    /\ [](SendWaits => pc[SendTarget] \in {"pull", "decode"})
    /\ [](\A r \in Tasks :
            LockWaits(r) => (~chan[r].open /\ CanSend(SendTarget)))
    /\ RegistryLocked ~> ~RegistryLocked

\* stop_recording holds the registry mutex and the sender mutex of the
\* camera and waits for room in its channel, which still holds the
\* StartRecording of the session, while a handle waits to be registered
C39_Witness ==
    /\ main.op = "stop_recording"
    /\ SendWaits
    /\ \E h \in Handles : ~created[h]
    /\ chan[SendTarget].queue[1].cmd = "StartRecording"

=============================================================================
